---- MODULE Spec2Model ----
(***************************************************************************)
(* Model of zeppelin-analytics: the in-memory data lake (dataframeloader), *)
(* its startup build and periodic refresh (main.lifespan,                  *)
(* main.reload_lake_periodically), the report endpoints that read it       *)
(* (main.student_report, main.teacher_report, service.get_user_report) and *)
(* the session narrative (metriccalc.sessionlog.generate_session_log).     *)
(*                                                                         *)
(* Units: a pandas Timestamp is an integer number of milliseconds since    *)
(* the epoch; speeds are in tenths of a metre per second.                  *)
(***************************************************************************)
EXTENDS Integers, Sequences, FiniteSets, TLC

VARIABLES
    \* ---- service (main.py, dataframeloader.py) ----
    lake,          \* dataframeloader.lake: the published table (a sequence of rows)
    store,         \* the reports collection db['test']['reports'] (a sequence of documents)
    life,          \* position of main.lifespan
    loop,          \* position of the task running reload_lake_periodically
    bpc,           \* per caller of load_lake: the await it is suspended at
    b_users,       \* per caller of load_lake: its local `users`
    sleepLeft,     \* seconds left of asyncio.sleep(interval_seconds)
    buildAge,      \* seconds the refresh build in progress has been running
    cancelReq,     \* refresh_task.cancel() was called and not yet delivered
    rpc,           \* per teacher request: the await of get_teacher_report it is at
    rdf,           \* per teacher request: its argument df
    resp,          \* the last response of a report endpoint
    \* ---- history of the service run (not program state) ----
    built,         \* the tables assigned to lake at dataframeloader.py:33 so far
    lakeAtStart,   \* per caller: lake when its load_lake call in progress began
    everOk,        \* some load_lake call has returned normally
    lastRefresh,   \* how the last finished refresh of the loop ended
    startupErr,    \* the startup load_lake call raised
    cancelled,     \* what the delivery of the cancellation found
    \* ---- get_user_report on drawn inputs ----
    rep_in,        \* the inputs of the call
    rep_out,       \* what student_report answered
    rep_report,    \* the report get_user_report returned, when it returned one
    \* ---- generate_session_log on drawn inputs ----
    log_in,        \* the inputs of the call
    session_df,    \* the sorted slice the loop walks
    log_out,       \* the returned log_entries
    \* ---- the scorers on drawn inputs ----
    score_in,      \* the rows of one user (the period and the history)
    score_out,     \* what the concentration and the stress scorer returned
    \* ---- the lake build on drawn inputs ----
    build_in,      \* the fetched users and courses and the stored documents
    build_out,     \* how lines 12-33 of load_lake ended, and the table
    \* ---- parse_body on drawn inputs ----
    parse_in,      \* the payload and the event-type tag
    parse_out,     \* the returned Series, or that the call raised
    \* ---- get_all_logs on drawn inputs ----
    all_in,        \* the table, the user and the date range
    all_out        \* the filtered table and the returned all_logs

svcVars == <<lake, store, life, loop, bpc, b_users, sleepLeft, buildAge, cancelReq,
             rpc, rdf, resp, built, lakeAtStart, everOk, lastRefresh,
             startupErr, cancelled>>
repVars == <<rep_in, rep_out, rep_report>>
logVars == <<log_in, session_df, log_out>>
scoreVars == <<score_in, score_out>>
buildVars == <<build_in, build_out>>
parseVars == <<parse_in, parse_out>>
allVars == <<all_in, all_out>>
vars == <<svcVars, repVars, logVars, scoreVars, buildVars, parseVars, allVars>>

-----------------------------------------------------------------------------
(* Generic helpers *)

NaN == "NaN"

Range(s) == {s[i] : i \in 1..Len(s)}

RECURSIVE Concat(_)
Concat(ss) == IF ss = <<>> THEN <<>> ELSE Head(ss) \o Concat(Tail(ss))

Min2(a, b) == IF a <= b THEN a ELSE b
Max2(a, b) == IF a >= b THEN a ELSE b

-----------------------------------------------------------------------------
(* utils.py *)

DayMs == 86400000

StrDate(day) == [kind |-> "str", v |-> day]     \* an ISO date, `day` days after the epoch
IntDate(ms) == [kind |-> "int", v |-> ms]       \* an epoch-millisecond integer

\* utils.parse_date: the instant of a date string (midnight UTC) or of an
\* epoch-millisecond integer; tz_convert changes the zone, not the instant.
parse_date(date) ==
    IF date.kind = "str" THEN date.v * DayMs ELSE date.v

\* A variant that marks every Series with the tag's marker field.
Series_Marked(fields) == [ok |-> TRUE, f |-> fields \cup {<<"other_type", "?">>}]

Series(fields) == [ok |-> TRUE, f |-> fields]
KeyErrorSeries == [ok |-> FALSE, f |-> {}]
Has(body, keys) == keys \subseteq DOMAIN body

\* utils.parse_body: the fields of one event, as a set of <<column, value>>;
\* ok = FALSE when a subscript raises KeyError.
parse_body(body, event_type) ==
    CASE event_type = "None" -> Series({})
      [] event_type = "USER_HEARTRATE" ->
            IF Has(body, {"heartrate_change"})
               /\ Has(body.heartrate_change, {"value", "count", "mean"})
            THEN Series({<<"heartrate_change.value", body.heartrate_change.value>>,
                         <<"heartrate_change.count", body.heartrate_change.count>>,
                         <<"heartrate_change.mean", body.heartrate_change.mean>>})
            ELSE KeyErrorSeries
      [] event_type = "USER_PHYSICAL_ACTIVITY" ->
            IF Has(body, {"detected_at", "speed"})
            THEN Series({<<"physical.detected_at", parse_date(IntDate(body.detected_at))>>,
                         <<"physical.speed", body.speed>>})
            ELSE KeyErrorSeries
      [] event_type = "WEAK_RSSI" ->
            IF Has(body, {"rssi"})
            THEN Series({<<"weak_rssi.value", body.rssi>>})
            ELSE KeyErrorSeries
      [] event_type = "WEARABLE_OFF" ->
            IF Has(body, {"time"})
            THEN Series({<<"wearable_off.at", parse_date(IntDate(body.time))>>})
            ELSE KeyErrorSeries
      [] event_type = "TEXT_SCROLL" ->
            IF Has(body, {"scroll_direction", "scroll_distance",
                          "current_scroll_position", "timestamp"})
            THEN Series({<<"text_scroll.direction", body.scroll_direction>>,
                         <<"text_scroll.distance", body.scroll_distance>>,
                         <<"text_scroll.position", body.current_scroll_position>>,
                         <<"text_scroll.time", parse_date(IntDate(body.timestamp))>>})
            ELSE KeyErrorSeries
      [] event_type = "TAB_FOCUS_GAIN" ->
            IF Has(body, {"timestamp"})
            THEN Series({<<"focus_gain.time", parse_date(IntDate(body.timestamp))>>})
            ELSE KeyErrorSeries
      [] event_type = "TAB_FOCUS_LOST" ->
            IF Has(body, {"timestamp"})
            THEN Series({<<"focus_lost.time", parse_date(IntDate(body.timestamp))>>})
            ELSE KeyErrorSeries
      [] event_type = "UNPIN_SCREEN" ->
            IF Has(body, {"removed_at"})
            THEN Series({<<"unpin_screen.at", parse_date(IntDate(body.removed_at))>>})
            ELSE KeyErrorSeries
      [] event_type = "VIDEO_PAUSED" ->
            IF Has(body, {"timestamp", "duration"})
            THEN Series({<<"video_paused.at", parse_date(IntDate(body.timestamp))>>,
                         <<"video_paused.duration", body.duration>>})
            ELSE KeyErrorSeries
      [] event_type = "VIDEO_JUMP" ->
            IF Has(body, {"timestamp", "jump_to", "direction"})
            THEN Series({<<"video_jump.at", parse_date(IntDate(body.timestamp))>>,
                         <<"video_jump.to", body.jump_to>>,
                         <<"video_jump.direction", body.direction>>})
            ELSE KeyErrorSeries
      [] event_type = "VIDEO_SPEED_CHANGED" ->
            IF Has(body, {"timestamp", "speed"})
            THEN Series({<<"video_speed_changed.at", parse_date(IntDate(body.timestamp))>>,
                         <<"video_speed_changed.speed", body.speed>>})
            ELSE KeyErrorSeries
      [] event_type = "VIDEO_PERCENTAGE" ->
            IF Has(body, {"timestamp", "percentage"})
            THEN Series({<<"video_percentage.at", parse_date(IntDate(body.timestamp))>>,
                         <<"video_percentage.percentage", body.percentage>>})
            ELSE KeyErrorSeries
      [] OTHER -> Series({<<"other_type", event_type>>})

\* The value of column c in a row (NaN when the row's event type has no such field).
Col(row, c) ==
    IF \E p \in row.f : p[1] = c
    THEN (CHOOSE p \in row.f : p[1] = c)[2]
    ELSE NaN

HasCol(row, c) == \E p \in row.f : p[1] = c

-----------------------------------------------------------------------------
(* dataframeloader.py *)

EmptyLake == <<>>                                \* lake = pd.DataFrame()

metric_columns ==
    {"focus_gain.time", "focus_lost.time", "heartrate_change.count",
     "heartrate_change.mean", "heartrate_change.value",
     "physical.detected_at", "physical.speed", "text_scroll.direction",
     "text_scroll.distance", "text_scroll.position", "text_scroll.time",
     "unpin_screen.at", "video_jump.at", "video_jump.direction",
     "video_jump.to", "video_paused.at", "video_paused.duration",
     "video_percentage.at", "video_percentage.percentage",
     "video_speed_changed.at", "video_speed_changed.speed",
     "weak_rssi.value", "wearable_off.at"}

\* A variant joining with how='inner': a report without user has no row.
MergeUsersRow_Inner(userdf, r) ==
    LET m == SelectSeq(userdf, LAMBDA u : u.user_id = r.userId)
    IN  [i \in 1..Len(m) |->
            [user_id |-> m[i].user_id, name |-> m[i].name,
             userId |-> r.userId, sessionId |-> r.sessionId,
             courseId |-> r.courseId, type |-> r.type,
             addedAt |-> r.addedAt, body |-> r.body]]

\* pd.merge(userdf, reports, left_on='user_id', right_on='userId', how='right'):
\* the rows of one report, one per matching user, or one with NaN user columns.
MergeUsersRow(userdf, r) ==
    LET m == SelectSeq(userdf, LAMBDA u : u.user_id = r.userId)
        joined(u) == [user_id |-> u.user_id, name |-> u.name,
                      userId |-> r.userId, sessionId |-> r.sessionId,
                      courseId |-> r.courseId, type |-> r.type,
                      addedAt |-> r.addedAt, body |-> r.body]
    IN  IF m = <<>>
        THEN << joined([user_id |-> NaN, name |-> NaN]) >>
        ELSE [i \in 1..Len(m) |-> joined(m[i])]

\* .merge(coursesdf, left_on='courseId', right_on='course_id', how='left')
MergeCoursesRow(coursesdf, r) ==
    LET m == SelectSeq(coursesdf, LAMBDA c : c.course_id = r.courseId)
        joined(c) == [user_id |-> r.user_id, name |-> r.name,
                      userId |-> r.userId, sessionId |-> r.sessionId,
                      courseId |-> r.courseId, type |-> r.type,
                      addedAt |-> r.addedAt, body |-> r.body,
                      title |-> c.title, teacher_id |-> c.teacher_id]
    IN  IF m = <<>>
        THEN << joined([title |-> NaN, teacher_id |-> NaN]) >>
        ELSE [i \in 1..Len(m) |-> joined(m[i])]

Merge(userdf, coursesdf, reports) ==
    LET withUsers == Concat([i \in 1..Len(reports) |-> MergeUsersRow(userdf, reports[i])])
    IN  Concat([i \in 1..Len(withUsers) |-> MergeCoursesRow(coursesdf, withUsers[i])])

\* pd.concat([pre_lake.drop(columns=['body']), body_df], axis=1) for one row
ProcessedRow(r) ==
    [user_id |-> r.user_id, name |-> r.name, userId |-> r.userId,
     sessionId |-> r.sessionId, courseId |-> r.courseId, type |-> r.type,
     addedAt |-> parse_date(IntDate(r.addedAt)),
     title |-> r.title, teacher_id |-> r.teacher_id,
     f |-> parse_body(r.body, r.type).f]

\* The values of the metric columns of a row (absent columns are NaN in all rows alike).
MetricTuple(row) == {p \in row.f : p[1] \in metric_columns}

\* A variant that also keys on the user: the first row of each tuple of each user stays.
drop_duplicates_PerUser(df) ==
    LET keep == {i \in 1..Len(df) :
                    \A j \in 1..(i - 1) :
                        MetricTuple(df[j]) # MetricTuple(df[i]) \/ df[j].userId # df[i].userId}
        RECURSIVE Take(_)
        Take(i) == IF i > Len(df) THEN <<>>
                   ELSE (IF i \in keep THEN <<df[i]>> ELSE <<>>) \o Take(i + 1)
    IN  Take(1)

\* DataFrame.drop_duplicates(subset=metric_columns): keeps the first row of each tuple.
drop_duplicates(df) ==
    LET keep == {i \in 1..Len(df) :
                    \A j \in 1..(i - 1) : MetricTuple(df[j]) # MetricTuple(df[i])}
        RECURSIVE Take(_)
        Take(i) == IF i > Len(df) THEN <<>>
                   ELSE (IF i \in keep THEN <<df[i]>> ELSE <<>>) \o Take(i + 1)
    IN  Take(1)

Columns(df) == UNION {{p[1] : p \in df[i].f} : i \in 1..Len(df)}

Raised(exc) == [ok |-> FALSE, exc |-> exc, table |-> <<>>]
Returned(table) == [ok |-> TRUE, exc |-> "none", table |-> table]

\* dataframeloader.load_lake, lines 12-33: everything between the second await and
\* the assignment to the global, given the two fetched lists and the collection.
\* A merge on a key column the frame lacks, a parse_body subscript and
\* drop_duplicates on a missing column each raise KeyError.
BuildTable(users, courses, reports) ==
    IF users = <<>> \/ reports = <<>> \/ courses = <<>>
    THEN Raised("KeyError")
    ELSE LET pre_lake == Merge(users, courses, reports)
         IN  IF \E i \in 1..Len(pre_lake) :
                     ~parse_body(pre_lake[i].body, pre_lake[i].type).ok
             THEN Raised("KeyError")
             ELSE LET processed == [i \in 1..Len(pre_lake) |-> ProcessedRow(pre_lake[i])]
                  IN  IF ~(metric_columns \subseteq Columns(processed))
                      THEN Raised("KeyError")
                      ELSE Returned(drop_duplicates(processed))

-----------------------------------------------------------------------------
(* Python values whose type decides a comparison *)

PyInt(x) == [t |-> "int", v |-> x]
PyStr(x) == [t |-> "str", v |-> x]               \* str(x)

\* `column == value` for an integer column: a string never equals an integer.
ColEq(x, value) == value.t = "int" /\ value.v = x

-----------------------------------------------------------------------------
(* metriccalc/sessionlog.py *)

STRESS_HR_THRESHOLD == 100
CALM_HR_THRESHOLD == 80
ACTIVITY_SPEED_THRESHOLD == 10
NsPerMs == 1000000

\* _to_ms_timestamp: int(ts.value / 1_000_000), ts.value in nanoseconds.
to_ms_timestamp(ts) == (ts * NsPerMs) \div NsPerMs

\* The orders sort_values("addedAt") can leave the rows in: every permutation
\* that is ascending in addedAt (the default sort kind is not stable).
RECURSIVE SortedOrders(_, _)
SortedOrders(rows, idx) ==
    IF idx = {} THEN {<<>>}
    ELSE UNION {{<<rows[i]>> \o rest : rest \in SortedOrders(rows, idx \ {i})} :
                    i \in {k \in idx : \A j \in idx : rows[k].addedAt <= rows[j].addedAt}}

\* Mutation of sort_values: the slice is left in the order of the table.
sort_values_Unsorted(rows) == {rows}

sort_values(rows) == SortedOrders(rows, 1..Len(rows))

\* Mutation of StressTransition: the calm threshold is not used, the flag
\* drops as soon as a sample is not above the stress threshold.
StressTransition_NoBand(hr, is_stressed) ==
    IF hr > STRESS_HR_THRESHOLD /\ ~is_stressed THEN "STRESS_INCREASED"
    ELSE IF hr <= STRESS_HR_THRESHOLD /\ is_stressed THEN "STRESS_DECREASED"
    ELSE "none"

\* sessionlog.py:99-112: the entry a USER_HEARTRATE row emits.
StressTransition(hr, is_stressed) ==
    IF hr > STRESS_HR_THRESHOLD /\ ~is_stressed THEN "STRESS_INCREASED"
    ELSE IF hr < CALM_HR_THRESHOLD /\ is_stressed THEN "STRESS_DECREASED"
    ELSE "none"

\* A variant in which a sample at exactly the threshold ends the active state.
ActivityTransition_AtThreshold(speed, is_active) ==
    IF speed > ACTIVITY_SPEED_THRESHOLD /\ ~is_active THEN "BECAME_ACTIVE"
    ELSE IF speed <= ACTIVITY_SPEED_THRESHOLD /\ is_active THEN "BECAME_SEDENTARY"
    ELSE "none"

\* sessionlog.py:113-126: the entry a USER_PHYSICAL_ACTIVITY row emits.
ActivityTransition(speed, is_active) ==
    IF speed > ACTIVITY_SPEED_THRESHOLD /\ ~is_active THEN "BECAME_ACTIVE"
    ELSE IF speed < ACTIVITY_SPEED_THRESHOLD /\ is_active THEN "BECAME_SEDENTARY"
    ELSE "none"

\* A variant in which a video pause of exactly 10 seconds is narrated too.
EntryType_PauseFromTen(row, is_stressed, is_active) ==
    CASE row.type = "TAB_FOCUS_LOST" -> "FOCUS_LOST"
      [] row.type = "TAB_FOCUS_GAIN" -> "FOCUS_GAINED"
      [] row.type = "VIDEO_PAUSED" /\ Col(row, "video_paused.duration") >= 10 -> "VIDEO_PAUSED"
      [] row.type = "VIDEO_SPEED_CHANGED" -> "VIDEO_SPEED_CHANGED"
      [] row.type = "UNPIN_SCREEN" -> "SCREEN_UNPINNED"
      [] row.type = "WEARABLE_OFF" -> "WATCH_REMOVED"
      [] row.type = "WEAK_RSSI" -> "WEAK_SIGNAL"
      [] row.type = "USER_HEARTRATE" ->
            StressTransition(Col(row, "heartrate_change.mean"), is_stressed)
      [] row.type = "USER_PHYSICAL_ACTIVITY" ->
            ActivityTransition(Col(row, "physical.speed"), is_active)
      [] OTHER -> "none"

\* sessionlog.py:55-126: one iteration of the loop: the event_type of the entry
\* it builds ("none" when entry stays None).
EntryType(row, is_stressed, is_active) ==
    CASE row.type = "TAB_FOCUS_LOST" -> "FOCUS_LOST"
      [] row.type = "TAB_FOCUS_GAIN" -> "FOCUS_GAINED"
      [] row.type = "VIDEO_PAUSED" /\ Col(row, "video_paused.duration") > 10 -> "VIDEO_PAUSED"
      [] row.type = "VIDEO_SPEED_CHANGED" -> "VIDEO_SPEED_CHANGED"
      [] row.type = "UNPIN_SCREEN" -> "SCREEN_UNPINNED"
      [] row.type = "WEARABLE_OFF" -> "WATCH_REMOVED"
      [] row.type = "WEAK_RSSI" -> "WEAK_SIGNAL"
      [] row.type = "USER_HEARTRATE" ->
            StressTransition(Col(row, "heartrate_change.mean"), is_stressed)
      [] row.type = "USER_PHYSICAL_ACTIVITY" ->
            ActivityTransition(Col(row, "physical.speed"), is_active)
      [] OTHER -> "none"

LogEntry(session_id, user_name, event_type, ts) ==
    [session_id |-> session_id.v, user_name |-> user_name,
     event_type |-> event_type, timestamp |-> to_ms_timestamp(ts)]

\* sessionlog.py:54-130: the entries of rows i.. of the sorted slice, the two
\* flags being as the rows before i left them.
RECURSIVE WalkRows(_, _, _, _, _)
WalkRows(sdf, i, is_stressed, is_active, session_id) ==
    IF i > Len(sdf) THEN <<>>
    ELSE LET row == sdf[i]
             et == EntryType(row, is_stressed, is_active)
             stressed2 == IF et = "STRESS_INCREASED" THEN TRUE
                          ELSE IF et = "STRESS_DECREASED" THEN FALSE
                          ELSE is_stressed
             active2 == IF et = "BECAME_ACTIVE" THEN TRUE
                        ELSE IF et = "BECAME_SEDENTARY" THEN FALSE
                        ELSE is_active
             rest == WalkRows(sdf, i + 1, stressed2, active2, session_id)
         IN  IF et = "none" THEN rest
             ELSE <<LogEntry(session_id, sdf[1].name, et, row.addedAt)>> \o rest

\* Mutation of SeqMax: the end marker takes the addedAt of the first row.
SeqMax_First(sdf) == sdf[1].addedAt

SeqMin(sdf) == CHOOSE t \in {sdf[i].addedAt : i \in 1..Len(sdf)} :
                   \A j \in 1..Len(sdf) : t <= sdf[j].addedAt
SeqMax(sdf) == CHOOSE t \in {sdf[i].addedAt : i \in 1..Len(sdf)} :
                   \A j \in 1..Len(sdf) : t >= sdf[j].addedAt

\* sessionlog.py:23: the rows of the user and session, in table order.
SessionMask(df, user_id, session_id) ==
    SelectSeq(df, LAMBDA r : r.userId = user_id /\ ColEq(r.sessionId, session_id))

\* sessionlog.py:26-142: the log of an already sorted slice.
LogOfSorted(sdf, session_id) ==
    IF sdf = <<>> THEN <<>>
    ELSE <<LogEntry(session_id, sdf[1].name, "SESSION_START", SeqMin(sdf))>>
         \o WalkRows(sdf, 1, FALSE, FALSE, session_id)
         \o <<LogEntry(session_id, sdf[1].name, "SESSION_END", SeqMax(sdf))>>

\* sessionlog.generate_session_log: the logs it can return (one per order the
\* sort can produce).
generate_session_log(df, user_id, session_id) ==
    {LogOfSorted(sdf, session_id) : sdf \in sort_values(SessionMask(df, user_id, session_id))}

-----------------------------------------------------------------------------
(* metriccalc/stress.py, metriccalc/concentration.py, metriccalc/session_summary.py,
   report_parse.py, service.py: the parts that decide which sessions a report
   holds and how a call ends *)

\* The distinct values of a set of integers in ascending order (groupby sorts its keys).
RECURSIVE Ascending(_)
Ascending(S) ==
    IF S = {} THEN <<>>
    ELSE LET m == CHOOSE x \in S : \A y \in S : x <= y
         IN  <<m>> \o Ascending(S \ {m})

SessionIds(rows) == Ascending({rows[i].sessionId : i \in 1..Len(rows)})

\* A variant that takes the sessions in ascending order of their id.
unique_Ascending(values) == Ascending(Range(values))

\* Series.unique(): the distinct values in the order of their first appearance.
unique(values) ==
    LET firsts == SelectSeq([i \in DOMAIN values |-> <<i, values[i]>>],
                            LAMBDA p : \A j \in 1..(p[1] - 1) : values[j] # p[2])
    IN  [k \in DOMAIN firsts |-> firsts[k][2]]

\* sessionlog.py:160-164: all_logs after the loop over session_ids, one element
\* per choice of the logs generate_session_log can return.
RECURSIVE ExtendAll(_, _, _)
ExtendAll(user_df, user_id, session_ids) ==
    IF session_ids = <<>> THEN {<<>>}
    ELSE {log \o rest : log \in generate_session_log(user_df, user_id, PyInt(Head(session_ids))),
                        rest \in ExtendAll(user_df, user_id, Tail(session_ids))}

\* sessionlog.py:151-154: the rows of the user from the start of start_date to
\* the end of end_date, in table order.
AllLogsMask(df, user_id, start_date, end_date) ==
    SelectSeq(df, LAMBDA r : /\ r.userId = user_id
                             /\ r.addedAt >= parse_date(start_date)
                             /\ r.addedAt < parse_date(end_date) + DayMs)

\* sessionlog.get_all_logs: the lists it can return.
get_all_logs(df, user_id, start_date, end_date) ==
    LET user_df == AllLogsMask(df, user_id, start_date, end_date)
    IN  IF user_df = <<>> THEN {<<>>}
        ELSE ExtendAll(user_df, user_id,
                       unique([i \in DOMAIN user_df |-> user_df[i].sessionId]))

\* stress.stress_report: the session_id of each entry of "sub_stress"; the mask is
\* on the joined column user_id and closed at parse_date(date_to).
stress_report(df, user_id, date_from, date_to) ==
    LET start == parse_date(date_from)
        end == parse_date(date_to)
        dfx == SelectSeq(df, LAMBDA r : r.user_id = user_id
                                        /\ r.addedAt >= start /\ r.addedAt <= end)
    IN  [sub_stress |-> SessionIds(dfx)]

\* The rows get_concentration_score keeps (concentration.py:210-220): the mask is on
\* the event's own userId and runs to the end of end_date.
ConcentrationPeriod(full_df, user_id, start_date, end_date) ==
    LET start_ts == parse_date(start_date)
        end_ts == parse_date(end_date) + DayMs
    IN  SelectSeq(full_df, LAMBDA r : r.userId = user_id
                                      /\ r.addedAt >= start_ts /\ r.addedAt < end_ts)

\* concentration.get_concentration_score: None, or the SESSION_ID of each entry of
\* "sub_scores".
get_concentration_score(full_df, user_id, start_date, end_date) ==
    LET user_period_df == ConcentrationPeriod(full_df, user_id, start_date, end_date)
    IN  IF user_period_df = <<>> \/ SessionIds(user_period_df) = <<>>
        THEN [none |-> TRUE, sub_scores |-> <<>>]
        ELSE [none |-> FALSE, sub_scores |-> SessionIds(user_period_df)]

\* utils._filter_data
filter_data(df, user_id, start_date, end_date) ==
    LET start == parse_date(start_date)
        end == parse_date(end_date) + DayMs
    IN  SelectSeq(df, LAMBDA r : r.user_id = user_id
                                 /\ r.addedAt >= start /\ r.addedAt < end)

\* session_summary.get_number_of_sessions
get_number_of_sessions(df, user_id, start_date, end_date) ==
    Len(SessionIds(filter_data(df, user_id, start_date, end_date)))

\* report_parse._parse_focus_report: raw_data.get on None raises AttributeError.
parse_focus_report(raw_data) ==
    IF raw_data.none THEN [exc |-> "AttributeError", focus_details |-> <<>>]
    ELSE [exc |-> "none", focus_details |-> raw_data.sub_scores]

\* service.get_user_report: how the call ends (exc) and the sessions of each
\* section of the report it returns.
get_user_report(df, user_id, start_date, end_date) ==
    LET raw_stress == stress_report(df, user_id, start_date, end_date)
        raw_concentration == get_concentration_score(df, user_id, start_date, end_date)
        has_first == raw_stress.sub_stress # <<>> /\ raw_stress.sub_stress[1] # 0
        raw_logs == IF has_first
                    THEN generate_session_log(df, user_id, PyStr(raw_stress.sub_stress[1]))
                    ELSE {<<>>}
        focus_model == parse_focus_report(raw_concentration)
    IN  IF focus_model.exc # "none"
        THEN {[exc |-> focus_model.exc, session_count |-> 0, stress_details |-> <<>>,
               focus_details |-> <<>>, session_log |-> <<>>]}
        ELSE {[exc |-> "none",
               session_count |-> get_number_of_sessions(df, user_id, start_date, end_date),
               stress_details |-> raw_stress.sub_stress,
               focus_details |-> focus_model.focus_details,
               session_log |-> raw_log] : raw_log \in raw_logs}

\* The exceptions `except ValueError` catches.
IsValueError(exc) == exc \in {"ValueError", "ValidationError"}

\* Mutation of NotReady: the endpoint also answers 503 while a refresh is running.
NotReady_WhileRefreshing(df) == df = EmptyLake \/ bpc["refresh"] # "idle"

\* main.py:120 and main.py:147: df_loader.lake.empty
NotReady(df) == df = EmptyLake

\* main.student_report: the status codes it can answer with.
student_report(df, user_id, start_date, end_date) ==
    IF NotReady(df) THEN {503}
    ELSE {IF r.exc = "none" THEN 200 ELSE IF IsValueError(r.exc) THEN 404 ELSE 500 :
            r \in get_user_report(df, user_id, start_date, end_date)}

-----------------------------------------------------------------------------
(* Numbers: a score is an exact fraction <<numerator, denominator>>, the
   denominator positive. Only exp and the square root are approximated, to
   three and to two decimals. *)

Abs(x) == IF x < 0 THEN -x ELSE x

RECURSIVE GCD(_, _)
GCD(a, b) == IF b = 0 THEN a ELSE GCD(b, a % b)

Frac(n, d) == LET g == GCD(Abs(n), d) IN <<n \div g, d \div g>>
Whole(n) == <<n, 1>>

\* The numerators of a and b over their least common denominator.
Over(a, b) == LET g == GCD(a[2], b[2])
              IN  <<a[1] * (b[2] \div g), b[1] * (a[2] \div g), (a[2] \div g) * b[2]>>

FAdd(a, b) == LET o == Over(a, b) IN Frac(o[1] + o[2], o[3])
FSub(a, b) == LET o == Over(a, b) IN Frac(o[1] - o[2], o[3])
FMul(a, b) == LET x == Frac(a[1], b[2])
                  y == Frac(b[1], a[2])
              IN  <<x[1] * y[1], x[2] * y[2]>>
FLe(a, b) == LET o == Over(a, b) IN o[1] <= o[2]
FMax(a, b) == IF FLe(a, b) THEN b ELSE a
FMin(a, b) == IF FLe(a, b) THEN a ELSE b

RECURSIVE FSum(_)
FSum(xs) == IF xs = <<>> THEN Whole(0) ELSE FAdd(Head(xs), FSum(Tail(xs)))

RECURSIVE FProd(_)
FProd(xs) == IF xs = <<>> THEN Whole(1) ELSE FMul(Head(xs), FProd(Tail(xs)))

\* Series.mean() of a non-empty sequence of fractions.
FMean(xs) == FMul(FSum(xs), Frac(1, Len(xs)))

RECURSIVE ISum(_)
ISum(xs) == IF xs = <<>> THEN 0 ELSE Head(xs) + ISum(Tail(xs))

\* The coefficient of variation std(ddof=1) / mean of at least two integers of
\* non-zero sum, in hundredths, rounded down.
CvCenti(xs) ==
    LET n == Len(xs)
        S == ISum(xs)
        Q == ISum([k \in 1..n |-> xs[k] * xs[k]])
        cv2 == Frac(n * (n * Q - S * S), (n - 1) * S * S)
    IN  CHOOSE k \in 0..400 : k * k * cv2[2] <= 10000 * cv2[1]
                              /\ 10000 * cv2[1] < (k + 1) * (k + 1) * cv2[2]

\* exp(-c/100), rounded to thousandths: the terms of the series in millionths,
\* alternately added and subtracted.
RECURSIVE ExpTerms(_, _, _)
ExpTerms(term, k, c) ==
    IF term = 0 \/ k > 30 THEN 0
    ELSE term - ExpTerms((term * c) \div (100 * (k + 1)), k + 1, c)

ExpNeg(c) == Frac((ExpTerms(1000000, 0, c) + 500) \div 1000, 1000)

-----------------------------------------------------------------------------
(* metriccalc/concentration.py *)

METRIC_WEIGHTS ==
    [TEXT_SCROLL |-> Frac(15, 100), VIDEO_JUMP |-> Frac(15, 100),
     VIDEO_PAUSE |-> Frac(10, 100), VIDEO_SPEED |-> Frac(10, 100),
     TAB_FOCUS |-> Frac(15, 100), PHYSICAL_ACTIVITY |-> Frac(10, 100),
     WEAK_SIGNAL |-> Frac(15, 100), WATCH_OFF |-> Frac(10, 100)]

HRTC_DOWN_PX == 500
HRTC_UP_PX == 100
VIDEO_PAUSE_THRESHOLD_S == 60
VIDEO_PAUSE_MAX_S == 300
PHYSICAL_ACTIVITY_THRESHOLD_MS == 10           \* 1.0 m/s, in tenths

OfType(df, t) == SelectSeq(df, LAMBDA r : r.type = t)

\* df[...].dropna(subset=[c]) and the column c of what is left
DropNa(df, c) == SelectSeq(df, LAMBDA r : HasCol(r, c))
Column(df, c) == [k \in 1..Len(df) |-> Col(df[k], c)]

AddedAtMin(df) == CHOOSE t \in {df[k].addedAt : k \in 1..Len(df)} :
                      \A k \in 1..Len(df) : t <= df[k].addedAt
AddedAtMax(df) == CHOOSE t \in {df[k].addedAt : k \in 1..Len(df)} :
                      \A k \in 1..Len(df) : t >= df[k].addedAt

\* concentration.py:51-55, get_quality
get_quality(row) ==
    LET up == Col(row, "text_scroll.direction") = "up"
        hrtc == IF up THEN HRTC_UP_PX ELSE HRTC_DOWN_PX
    IN  FMul(IF up THEN Frac(8, 10) ELSE Whole(1),
             FMin(Whole(1), Frac(Col(row, "text_scroll.distance"), hrtc)))

\* concentration._calculate_text_scroll_score
calculate_text_scroll_score(sdf) ==
    LET scroll_events == DropNa(OfType(sdf, "TEXT_SCROLL"), "text_scroll.distance")
        distances == Column(scroll_events, "text_scroll.distance")
        consistency_score ==
            IF Len(distances) < 2 THEN Whole(1)
            ELSE IF ISum(distances) = 0 THEN ExpNeg(100)
            ELSE ExpNeg(CvCenti(distances))
        scroll_quality_score ==
            FMean([k \in 1..Len(scroll_events) |-> get_quality(scroll_events[k])])
    IN  IF scroll_events = <<>> THEN Whole(1)
        ELSE FAdd(FMul(Frac(15, 100), consistency_score),
                  FMul(Frac(85, 100), scroll_quality_score))

\* A variant that scores a user without history 1.0 when the session has no jump.
calculate_video_jump_score_NewUserPerfect(sdf, user_history_df) ==
    IF OfType(user_history_df, "VIDEO_JUMP") = <<>> /\ OfType(sdf, "VIDEO_JUMP") = <<>>
    THEN Whole(1) ELSE Whole(0)

\* concentration._calculate_video_jump_score
calculate_video_jump_score(sdf, user_history_df) ==
    LET jumps == OfType(user_history_df, "VIDEO_JUMP")
        sessions == {jumps[k].sessionId : k \in 1..Len(jumps)}
        ajs == IF jumps = <<>> THEN Whole(5) ELSE Frac(Len(jumps), Cardinality(sessions))
        sjs == Whole(Len(OfType(sdf, "VIDEO_JUMP")))
        dev == FSub(sjs, ajs)
        absdev == IF dev[1] < 0 THEN <<-dev[1], dev[2]>> ELSE dev
    IN  IF ajs[1] = 0 THEN (IF sjs[1] > 0 THEN Whole(0) ELSE Whole(1))
        ELSE FMax(Whole(0), FSub(Whole(1), FMul(absdev, <<ajs[2], ajs[1]>>)))

\* concentration.py:96-98: the penalty of one long pause
PausePenalty(d) ==
    FSub(Whole(1), Frac(IF d < VIDEO_PAUSE_MAX_S THEN d ELSE VIDEO_PAUSE_MAX_S,
                        VIDEO_PAUSE_MAX_S))

\* A variant that keeps the worst single pause instead of multiplying.
calculate_video_pause_score_WorstPause(sdf) ==
    LET paused == DropNa(OfType(sdf, "VIDEO_PAUSED"), "video_paused.duration")
        long_pauses == SelectSeq(paused, LAMBDA r :
                           Col(r, "video_paused.duration") > VIDEO_PAUSE_THRESHOLD_S)
        penalties == {PausePenalty(Col(long_pauses[k], "video_paused.duration")) :
                         k \in 1..Len(long_pauses)}
    IN  IF long_pauses = <<>> THEN Whole(1)
        ELSE CHOOSE x \in penalties : \A y \in penalties : FLe(x, y)

\* concentration._calculate_video_pause_score
calculate_video_pause_score(sdf) ==
    LET paused == DropNa(OfType(sdf, "VIDEO_PAUSED"), "video_paused.duration")
        long_pauses == SelectSeq(paused, LAMBDA r :
                           Col(r, "video_paused.duration") > VIDEO_PAUSE_THRESHOLD_S)
    IN  IF long_pauses = <<>> THEN Whole(1)
        ELSE FProd([k \in 1..Len(long_pauses) |->
                       PausePenalty(Col(long_pauses[k], "video_paused.duration"))])

\* concentration.py:110-116, score_speed; s in hundredths
score_speed(s) ==
    IF s <= 125 THEN Whole(1)
    ELSE IF s <= 200 THEN FSub(Whole(1), Frac(s - 125, 200))
    ELSE Whole(0)

\* concentration._calculate_video_speed_score
calculate_video_speed_score(sdf) ==
    LET speed_events == DropNa(OfType(sdf, "VIDEO_SPEED_CHANGED"),
                               "video_speed_changed.speed")
    IN  IF speed_events = <<>> THEN Whole(1)
        ELSE FMean([k \in 1..Len(speed_events) |->
                       score_speed(Col(speed_events[k], "video_speed_changed.speed"))])

\* concentration._calculate_tab_focus_score; times in milliseconds
calculate_tab_focus_score(sdf) ==
    LET session_start == AddedAtMin(sdf)
        session_end == AddedAtMax(sdf)
        total_duration == session_end - session_start
        focus_lost_events == OfType(sdf, "TAB_FOCUS_LOST")
        focus_gain_events == OfType(sdf, "TAB_FOCUS_GAIN")
        Distraction(lost_event) ==
            LET lost == Col(lost_event, "focus_lost.time")
                gain_after == {Col(focus_gain_events[k], "focus_gain.time") :
                                  k \in {m \in 1..Len(focus_gain_events) :
                                            Col(focus_gain_events[m], "focus_gain.time") > lost}}
            IN  IF gain_after # {}
                THEN (CHOOSE g \in gain_after : \A h \in gain_after : g <= h) - lost
                ELSE session_end - lost
        total_distraction == ISum([k \in 1..Len(focus_lost_events) |->
                                      Distraction(focus_lost_events[k])])
        focused_duration == IF total_duration - total_distraction > 0
                            THEN total_duration - total_distraction ELSE 0
    IN  IF total_duration = 0 THEN Whole(1)
        ELSE Frac(focused_duration, total_duration)

\* concentration._calculate_physical_activity_score
calculate_physical_activity_score(sdf) ==
    LET activity_events == DropNa(OfType(sdf, "USER_PHYSICAL_ACTIVITY"), "physical.speed")
        sedentary_events == SelectSeq(activity_events, LAMBDA r :
                                Col(r, "physical.speed") <= PHYSICAL_ACTIVITY_THRESHOLD_MS)
    IN  IF activity_events = <<>> THEN Whole(1)
        ELSE Frac(Len(sedentary_events), Len(activity_events))

\* concentration.py:181-183, score_rssi
score_rssi(rssi) == FMax(Whole(0), FMin(Whole(1), Frac(rssi + 90, 20)))

\* concentration._calculate_weak_signal_score
calculate_weak_signal_score(sdf) ==
    LET signal_events == DropNa(OfType(sdf, "WEAK_RSSI"), "weak_rssi.value")
    IN  IF signal_events = <<>> THEN Whole(1)
        ELSE FMean([k \in 1..Len(signal_events) |->
                       score_rssi(Col(signal_events[k], "weak_rssi.value"))])

\* concentration._calculate_watch_off_score
calculate_watch_off_score(sdf) ==
    LET n_off == Len(OfType(sdf, "WEARABLE_OFF"))
    IN  FMax(Whole(0), FSub(Whole(1), Frac(n_off, 2)))

\* concentration.py:264-274: the sub-scores of one session
SubScores(session_id, sdf, user_history_df) ==
    [SESSION_ID |-> session_id,
     TEXT_SCROLL |-> calculate_text_scroll_score(sdf),
     VIDEO_JUMP |-> calculate_video_jump_score(sdf, user_history_df),
     VIDEO_PAUSE |-> calculate_video_pause_score(sdf),
     VIDEO_SPEED |-> calculate_video_speed_score(sdf),
     TAB_FOCUS |-> calculate_tab_focus_score(sdf),
     PHYSICAL_ACTIVITY |-> calculate_physical_activity_score(sdf),
     WEAK_SIGNAL |-> calculate_weak_signal_score(sdf),
     WATCH_OFF |-> calculate_watch_off_score(sdf)]

\* concentration.py:278-280: final_session_score
SessionScore(sub_scores) ==
    LET metrics == <<"TEXT_SCROLL", "VIDEO_JUMP", "VIDEO_PAUSE", "VIDEO_SPEED",
                     "TAB_FOCUS", "PHYSICAL_ACTIVITY", "WEAK_SIGNAL", "WATCH_OFF">>
    IN  FSum([k \in 1..Len(metrics) |->
                 FMul(sub_scores[metrics[k]], METRIC_WEIGHTS[metrics[k]])])

\* groupby("sessionId"): the group of one key
Group(df, session_id) == SelectSeq(df, LAMBDA r : r.sessionId = session_id)

\* concentration.get_concentration_score_no_filter
get_concentration_score_no_filter(user_period_df, user_history_df) ==
    IF user_period_df = <<>> THEN [none |-> TRUE]
    ELSE LET ids == SessionIds(user_period_df)
             sub_scores_list == [k \in 1..Len(ids) |->
                 SubScores(ids[k], Group(user_period_df, ids[k]), user_history_df)]
             session_scores == [k \in 1..Len(ids) |-> SessionScore(sub_scores_list[k])]
         IN  [none |-> FALSE,
              concentration_score |-> FMean(session_scores),
              sub_scores |-> sub_scores_list]

-----------------------------------------------------------------------------
(* metriccalc/stress.py *)

\* stress._clamp
clamp(x) == FMax(Whole(0), FMin(Whole(1), x))

MsPerMinute == 60000

\* stress._metric_stress_heartrate; Series.mean() skips the rows without a value
metric_stress_heartrate(df) ==
    LET means == Column(DropNa(df, "heartrate_change.mean"), "heartrate_change.mean")
    IN  IF df = <<>> THEN Whole(0)
        ELSE IF means = <<>> THEN Whole(1)        \* min(1.0, nan) is 1.0
        ELSE clamp(FMul(FSub(Frac(ISum(means), Len(means)), Whole(75)), Frac(1, 35)))

\* stress._metric_stress_activity; thresh = 1.0 m/s, in tenths
metric_stress_activity(df) ==
    LET high_speed_events == SelectSeq(DropNa(df, "physical.speed"),
                                 LAMBDA r : Col(r, "physical.speed") > 10)
    IN  IF df = <<>> THEN Whole(0)
        ELSE Frac(Len(high_speed_events), Len(df))

\* stress._metric_stress_scrolling
metric_stress_scrolling(df) ==
    LET dists == Column(df, "text_scroll.distance")
    IN  IF Len(df) < 2 THEN Whole(0)
        ELSE IF ISum(dists) = 0 THEN Whole(0)
        ELSE clamp(Frac(CvCenti(dists), 150))

\* stress._metric_stress_video_jump; the duration in milliseconds
metric_stress_video_jump(df, duration_ms) ==
    IF df = <<>> \/ duration_ms = 0 THEN Whole(0)
    ELSE clamp(FMul(Frac(Len(df) * MsPerMinute, duration_ms), Frac(2, 3)))

\* stress._metric_stress_tab_focus; the duration in milliseconds
metric_stress_tab_focus(df, duration_ms) ==
    IF duration_ms = 0 THEN Whole(0)
    ELSE clamp(Frac(Len(OfType(df, "TAB_FOCUS_LOST")) * MsPerMinute, duration_ms))

\* stress.py:115-121
stress_weights ==
    [heartrate |-> Frac(40, 100), activity |-> Frac(15, 100), scrolling |-> Frac(15, 100),
     jumping |-> Frac(10, 100), focus_loss |-> Frac(20, 100)]

\* stress.py:124-152: the entry of one session
SessionStress(session_id, g) ==
    LET duration_ms == AddedAtMax(g) - AddedAtMin(g)
        heartrate == metric_stress_heartrate(OfType(g, "USER_HEARTRATE"))
        activity == metric_stress_activity(OfType(g, "USER_PHYSICAL_ACTIVITY"))
        scrolling == metric_stress_scrolling(OfType(g, "TEXT_SCROLL"))
        jumping == metric_stress_video_jump(OfType(g, "VIDEO_JUMP"), duration_ms)
        focus_loss == metric_stress_tab_focus(g, duration_ms)
    IN  [session_id |-> session_id,
         stress_level |-> FSum(<<FMul(heartrate, stress_weights.heartrate),
                                 FMul(activity, stress_weights.activity),
                                 FMul(scrolling, stress_weights.scrolling),
                                 FMul(jumping, stress_weights.jumping),
                                 FMul(focus_loss, stress_weights.focus_loss)>>),
         HEARTRATE |-> heartrate, ACTIVITY |-> activity, SCROLLING |-> scrolling,
         JUMPING |-> jumping, FOCUS_LOSS |-> focus_loss]

\* stress.stress_score_
stress_score_(dfx) ==
    LET ids == SessionIds(dfx)
        sub_stress_list == [k \in 1..Len(ids) |-> SessionStress(ids[k], Group(dfx, ids[k]))]
    IN  [stress |-> IF ids = <<>> THEN Whole(0)
                    ELSE FMean([k \in 1..Len(ids) |-> sub_stress_list[k].stress_level]),
         sub_stress |-> sub_stress_list]

-----------------------------------------------------------------------------
(* The data the service runs on *)

Doc(userId, sessionId, courseId, type, addedAt, body) ==
    [userId |-> userId, sessionId |-> sessionId, courseId |-> courseId,
     type |-> type, addedAt |-> addedAt, body |-> body]

\* GET /user and GET /course of the reference API
UsersRef == << [user_id |-> "u1", name |-> "Ana"], [user_id |-> "u2", name |-> "Ben"] >>
CoursesRef == << [course_id |-> 1, title |-> "Algebra", teacher_id |-> "t1"] >>

\* A collection holding one document of every event type that has metric columns.
SeedStore ==
    << Doc("u1", 1, 1, "USER_HEARTRATE", 1,
           [heartrate_change |-> [value |-> 90, count |-> 3, mean |-> 90]]),
       Doc("u1", 1, 1, "USER_PHYSICAL_ACTIVITY", 2, [detected_at |-> 2, speed |-> 5]),
       Doc("u1", 1, 1, "WEAK_RSSI", 3, [rssi |-> -80]),
       Doc("u1", 1, 1, "WEARABLE_OFF", 4, [time |-> 4]),
       Doc("u1", 1, 1, "TEXT_SCROLL", 5,
           [scroll_direction |-> "down", scroll_distance |-> 250,
            current_scroll_position |-> 10, timestamp |-> 5]),
       Doc("u1", 1, 1, "TAB_FOCUS_GAIN", 6, [timestamp |-> 6]),
       Doc("u1", 1, 1, "TAB_FOCUS_LOST", 7, [timestamp |-> 7]),
       Doc("u2", 2, 1, "UNPIN_SCREEN", 8, [removed_at |-> 8]),
       Doc("u2", 2, 1, "VIDEO_PAUSED", 9, [timestamp |-> 9, duration |-> 20]),
       Doc("u2", 2, 1, "VIDEO_JUMP", 10,
           [timestamp |-> 10, jump_to |-> 30, direction |-> "forward"]),
       Doc("u2", 2, 1, "VIDEO_SPEED_CHANGED", 11, [timestamp |-> 11, speed |-> 15]),
       Doc("u2", 2, 1, "VIDEO_PERCENTAGE", 12, [timestamp |-> 12, percentage |-> 50]) >>

\* Documents POST /add/report inserts in the runs explored: an event of a user
\* the reference API does not know, on the next day and in an unknown course; an
\* event of a known user on the next day.
DocUnknownUser ==
    Doc("u3", 3, 2, "USER_HEARTRATE", DayMs + 1,
        [heartrate_change |-> [value |-> 105, count |-> 2, mean |-> 105]])
DocNextDay ==
    Doc("u1", 5, 1, "USER_HEARTRATE", DayMs + 3,
        [heartrate_change |-> [value |-> 70, count |-> 2, mean |-> 70]])

NewDocs == {DocUnknownUser}

MaxReports == 1        \* documents inserted during a run
NumReaders == 1        \* teacher requests in flight at once
MaxDay == 1            \* the dates requests ask for are days 0..MaxDay
TickSeconds == 600     \* the step of the clock
MaxBuildAge == 1200    \* the age a build is tracked up to

Readers == 1..NumReaders
Callers == {"startup", "refresh"}
ReqUsers == {"u1", "u9"}
ReqDays == 0..MaxDay
Teachers == {"t1", "t9"}
FetchOutcomes == {"ok", "http_error", "network_error"}

RefreshInterval == 600

-----------------------------------------------------------------------------
(* apiClient.py *)

\* APIClient.request: the list on success, None on an HTTP error status (the frame
\* made of None has no columns, like the frame of an empty list); any other httpx
\* error propagates.
ApiRequest(outcome, data) == IF outcome = "ok" THEN data ELSE <<>>

-----------------------------------------------------------------------------
(* main.py and dataframeloader.py: the service *)

\* Mutation of Caught: the handler is `except BaseException`.
Caught_BaseException(exc) == TRUE

\* Mutation of Caught: the handler only catches the lookup errors of the build.
Caught_KeyErrorOnly(exc) == exc = "KeyError"

\* main.py:43 `except Exception`: CancelledError derives from BaseException.
Caught(exc) == exc # "CancelledError"

\* Mutation of CanCreateTask: the startup load is not awaited before the task is made.
CanCreateTask_NoAwait == life \in {"loading", "loaded"}

\* main.py:60-63: create_task runs once `await load_lake(...)` has returned.
CanCreateTask == life = "loaded"

\* Mutation of Publish: the new rows are appended to the table in place.
Publish_Append(old, new) == old \o new

\* dataframeloader.py:33: the global is rebound to the new frame.
Publish(old, new) == new

NoRefresh == [outcome |-> "none", kept |-> TRUE]
NotCancelled == [delivered |-> FALSE, inBuild |-> FALSE, handler |-> FALSE,
                 before |-> EmptyLake]
NoResp == [endpoint |-> "none", status |-> 0, oneBuild |-> FALSE, ready |-> FALSE]

\* A response: its status, whether the table it was computed from is the table of
\* one build, and whether a load_lake call had returned by then.
Answer(endpoint, status, df) ==
    [endpoint |-> endpoint, status |-> status, oneBuild |-> df \in built, ready |-> everOk]

SvcInit ==
    /\ lake = EmptyLake
    /\ store \in {<<>>, SeedStore}
    /\ life = "init"
    /\ loop = "none"
    /\ bpc = [c \in Callers |-> "idle"]
    /\ b_users = [c \in Callers |-> <<>>]
    /\ sleepLeft = 0
    /\ buildAge = 0
    /\ cancelReq = FALSE
    /\ rpc = [r \in Readers |-> "idle"]
    /\ rdf = [r \in Readers |-> EmptyLake]
    /\ resp = NoResp
    /\ built = {}
    /\ lakeAtStart = [c \in Callers |-> EmptyLake]
    /\ everOk = FALSE
    /\ lastRefresh = NoRefresh
    /\ startupErr = FALSE
    /\ cancelled = NotCancelled

\* The frame of a load_lake call is gone: its locals and what was noted at its start.
FrameDropped(c) ==
    /\ bpc' = [bpc EXCEPT ![c] = "idle"]
    /\ b_users' = [b_users EXCEPT ![c] = <<>>]
    /\ lakeAtStart' = [lakeAtStart EXCEPT ![c] = EmptyLake]
    /\ buildAge' = IF c = "refresh" THEN 0 ELSE buildAge

\* What the caller of load_lake does when the call ends: lifespan lets the
\* exception out (main.py:60); the loop catches it and sleeps (main.py:41-45).
LoadEnds(c, exc, newLake) ==
    /\ FrameDropped(c)
    /\ everOk' = (everOk \/ exc = "none")
    /\ IF c = "startup"
       THEN /\ life' = IF exc # "none" THEN "failed"
                       ELSE IF life = "loading" THEN "loaded" ELSE life
            /\ startupErr' = (startupErr \/ exc # "none")
            /\ UNCHANGED <<loop, sleepLeft, lastRefresh>>
       ELSE /\ IF exc = "none" \/ Caught(exc)
               THEN loop' = "sleep" /\ sleepLeft' = RefreshInterval
               ELSE loop' = "crashed" /\ sleepLeft' = sleepLeft
            /\ lastRefresh' = [outcome |-> IF exc = "none" THEN "ok" ELSE "failed",
                               kept |-> newLake = lakeAtStart[c]]
            /\ UNCHANGED <<life, startupErr>>

\* main.py:53-60: lifespan makes the clients and calls load_lake.
StartupLoad ==
    /\ life = "init"
    /\ life' = "loading"
    /\ bpc' = [bpc EXCEPT !["startup"] = "get_users"]
    /\ lakeAtStart' = [lakeAtStart EXCEPT !["startup"] = lake]
    /\ UNCHANGED <<lake, store, loop, b_users, sleepLeft, buildAge, cancelReq,
                   rpc, rdf, resp, built, everOk, lastRefresh, startupErr, cancelled>>

\* dataframeloader.py:11: `await api.get_users()` completes.
GetUsers(c, outcome) ==
    /\ bpc[c] = "get_users"
    /\ ~(c = "refresh" /\ cancelReq)
    /\ IF outcome = "network_error"
       THEN LoadEnds(c, "ConnectError", lake)
       ELSE /\ b_users' = [b_users EXCEPT ![c] = ApiRequest(outcome, UsersRef)]
            /\ bpc' = [bpc EXCEPT ![c] = "get_courses"]
            /\ UNCHANGED <<life, loop, sleepLeft, buildAge, lakeAtStart, everOk,
                           lastRefresh, startupErr>>
    /\ UNCHANGED <<lake, store, cancelReq, rpc, rdf, resp, built, cancelled>>

\* dataframeloader.py:13-35: `await api.request("/course")` completes and the rest
\* of load_lake runs without suspending: the build, the assignment to the global
\* (line 33) and the dump to lake.csv (line 34), which can fail like any write.
GetCoursesAndBuild(c, outcome, csv_ok) ==
    /\ bpc[c] = "get_courses"
    /\ ~(c = "refresh" /\ cancelReq)
    /\ LET res == BuildTable(b_users[c], ApiRequest(outcome, CoursesRef), store)
       IN  IF outcome = "network_error"
           THEN /\ LoadEnds(c, "ConnectError", lake)
                /\ UNCHANGED <<lake, built>>
           ELSE IF ~res.ok
           THEN /\ LoadEnds(c, res.exc, lake)
                /\ UNCHANGED <<lake, built>>
           ELSE /\ lake' = Publish(lake, res.table)
                /\ built' = built \cup {res.table}
                /\ LoadEnds(c, IF csv_ok THEN "none" ELSE "OSError", lake')
    /\ UNCHANGED <<store, cancelReq, rpc, rdf, resp, cancelled>>

\* main.py:63-67: the refresh task is created and the application starts serving.
CreateTask ==
    /\ CanCreateTask
    /\ loop = "none"
    /\ loop' = "created"
    /\ life' = IF life = "loaded" THEN "running" ELSE life
    /\ UNCHANGED <<lake, store, bpc, b_users, sleepLeft, buildAge, cancelReq, rpc, rdf,
                   resp, built, lakeAtStart, everOk, lastRefresh, startupErr,
                   cancelled>>

\* main.py:39-42: the loop body starts (the task's first step, or the sleep is
\* over) and calls load_lake.
LoopIterate ==
    /\ ~cancelReq
    /\ loop = "created" \/ (loop = "sleep" /\ sleepLeft = 0)
    /\ loop' = "building"
    /\ bpc' = [bpc EXCEPT !["refresh"] = "get_users"]
    /\ lakeAtStart' = [lakeAtStart EXCEPT !["refresh"] = lake]
    /\ buildAge' = 0
    /\ UNCHANGED <<lake, store, life, b_users, sleepLeft, cancelReq, rpc, rdf, resp,
                   built, everOk, lastRefresh, startupErr, cancelled>>

\* Time passes: the sleep runs down, the build in progress gets older.
Tick ==
    /\ \/ loop = "sleep" /\ sleepLeft > 0
       \/ loop = "building" /\ buildAge < MaxBuildAge
    /\ sleepLeft' = IF loop = "sleep" THEN Max2(0, sleepLeft - TickSeconds) ELSE sleepLeft
    /\ buildAge' = IF loop = "building" THEN Min2(MaxBuildAge, buildAge + TickSeconds)
                   ELSE buildAge
    /\ UNCHANGED <<lake, store, life, loop, bpc, b_users, cancelReq, rpc, rdf, resp,
                   built, lakeAtStart, everOk, lastRefresh, startupErr, cancelled>>

\* main.py:69-70: shutdown; refresh_task.cancel().
Shutdown ==
    /\ life = "running"
    /\ life' = "cancelling"
    /\ cancelReq' = (loop \in {"created", "building", "sleep"})
    /\ UNCHANGED <<lake, store, loop, bpc, b_users, sleepLeft, buildAge, rpc, rdf, resp,
                   built, lakeAtStart, everOk, lastRefresh, startupErr, cancelled>>

\* The task's next step raises CancelledError at the await it is suspended at:
\* inside the try when a load_lake call is in progress (main.py:42), outside it
\* during the sleep (main.py:45) or before the task's first step.
DeliverCancel ==
    /\ cancelReq
    /\ loop \in {"created", "building", "sleep"}
    /\ cancelReq' = FALSE
    /\ FrameDropped("refresh")
    /\ IF loop = "building" /\ Caught("CancelledError")
       THEN /\ loop' = "sleep"
            /\ sleepLeft' = RefreshInterval
            /\ lastRefresh' = [outcome |-> "failed", kept |-> lake = lakeAtStart["refresh"]]
       ELSE /\ loop' = "cancelled"
            /\ UNCHANGED <<sleepLeft, lastRefresh>>
    /\ cancelled' = [delivered |-> TRUE, inBuild |-> loop = "building",
                     handler |-> (loop = "building" /\ Caught("CancelledError")),
                     before |-> IF loop = "building" THEN lakeAtStart["refresh"] ELSE lake]
    /\ UNCHANGED <<lake, store, life, rpc, rdf, resp, built, everOk, startupErr>>

\* main.py:71-74: `await refresh_task` ends with CancelledError, which is caught.
AwaitTask ==
    /\ life = "cancelling"
    /\ loop \in {"cancelled", "crashed"}
    /\ life' = "stopped"
    /\ UNCHANGED <<lake, store, loop, bpc, b_users, sleepLeft, buildAge, cancelReq, rpc,
                   rdf, resp, built, lakeAtStart, everOk, lastRefresh, startupErr,
                   cancelled>>

\* main.add_report: one document is inserted into the collection.
AddReport(doc) ==
    /\ life = "running"
    /\ Len(store) < Len(SeedStore) + MaxReports
    /\ store' = Append(store, doc)
    /\ UNCHANGED <<lake, life, loop, bpc, b_users, sleepLeft, buildAge, cancelReq, rpc,
                   rdf, resp, built, lakeAtStart, everOk, lastRefresh, startupErr,
                   cancelled>>

\* main.student_report: the handler never suspends, it reads df_loader.lake and
\* answers in one step.
StudentReport(user_id, start_date, end_date) ==
    /\ life = "running"
    /\ \E status \in student_report(lake, user_id, StrDate(start_date), StrDate(end_date)) :
          resp' = Answer("student", status, lake)
    /\ UNCHANGED <<lake, store, life, loop, bpc, b_users, sleepLeft, buildAge, cancelReq,
                   rpc, rdf, built, lakeAtStart, everOk, lastRefresh, startupErr,
                   cancelled>>

\* main.teacher_report up to the first await of get_teacher_report
\* (main.py:147-161, teacherreport.py:54-72): the emptiness check, the binding of
\* df to df_loader.lake and the filter on teacher_id happen in one step.
TeacherBegin(r, teacher_id) ==
    /\ life = "running"
    /\ rpc[r] = "idle"
    /\ IF NotReady(lake)
       THEN /\ resp' = Answer("teacher", 503, lake)
            /\ UNCHANGED <<rpc, rdf>>
       ELSE IF SelectSeq(lake, LAMBDA row : row.teacher_id = teacher_id) = <<>>
       THEN /\ resp' = Answer("teacher", 200, lake)
            /\ UNCHANGED <<rpc, rdf>>
       ELSE /\ rdf' = [rdf EXCEPT ![r] = lake]
            /\ rpc' = [rpc EXCEPT ![r] = "progress_view"]
            /\ UNCHANGED resp
    /\ UNCHANGED <<lake, store, life, loop, bpc, b_users, sleepLeft, buildAge, cancelReq,
                   built, lakeAtStart, everOk, lastRefresh, startupErr, cancelled>>

\* get_teacher_report resumes from one of its three awaits (teacherreport.py:72,
\* 99, 142); after the last one it returns the report computed from df. An
\* httpx error other than a status error is not caught anywhere: 500.
TeacherResume(r, ok) ==
    /\ rpc[r] # "idle"
    /\ IF ~ok \/ rpc[r] = "courses"
       THEN /\ rpc' = [rpc EXCEPT ![r] = "idle"]
            /\ rdf' = [rdf EXCEPT ![r] = EmptyLake]
            /\ resp' = Answer("teacher", IF ok THEN 200 ELSE 500, rdf[r])
       ELSE /\ rpc' = [rpc EXCEPT ![r] = IF rpc[r] = "progress_view" THEN "users"
                                          ELSE "courses"]
            /\ UNCHANGED <<rdf, resp>>
    /\ UNCHANGED <<lake, store, life, loop, bpc, b_users, sleepLeft, buildAge, cancelReq,
                   built, lakeAtStart, everOk, lastRefresh, startupErr, cancelled>>

RepIdle == rep_in = <<>> /\ rep_out = 0 /\ rep_report = <<>>
LogIdle == log_in = <<>> /\ session_df = <<>> /\ log_out = [done |-> FALSE, log |-> <<>>]
ScoreIdle == score_in = <<>> /\ score_out = [done |-> FALSE]
BuildIdle == build_in = <<>> /\ build_out = [done |-> FALSE]
ParseIdle == parse_in = <<>> /\ parse_out = [done |-> FALSE]
AllIdle == all_in = <<>> /\ all_out = [done |-> FALSE]

SvcNext ==
    \/ StartupLoad
    \/ \E c \in Callers, o \in FetchOutcomes : GetUsers(c, o)
    \/ \E c \in Callers, o \in FetchOutcomes, csv_ok \in BOOLEAN : GetCoursesAndBuild(c, o, csv_ok)
    \/ CreateTask
    \/ LoopIterate
    \/ Tick
    \/ Shutdown
    \/ DeliverCancel
    \/ AwaitTask
    \/ \E doc \in NewDocs : AddReport(doc)
    \/ \E u \in ReqUsers, d2 \in ReqDays : StudentReport(u, 0, d2)
    \/ \E r \in Readers, t \in Teachers : TeacherBegin(r, t)
    \/ \E r \in Readers, ok \in BOOLEAN : TeacherResume(r, ok)

Init == SvcInit /\ RepIdle /\ LogIdle /\ ScoreIdle /\ BuildIdle /\ ParseIdle /\ AllIdle
Next == SvcNext /\ UNCHANGED <<repVars, logVars, scoreVars, buildVars, parseVars, allVars>>
Spec == Init /\ [][Next]_vars

\* The event loop runs a task that is ready: the clock advances while something
\* waits on it, and the loop body starts when its sleep is over.
FairSpec == Spec /\ WF_svcVars(Tick) /\ WF_svcVars(LoopIterate)

-----------------------------------------------------------------------------
(* student_report applied to drawn inputs *)

SeqsUpTo(S, n) == UNION {[1..k -> S] : k \in 0..n}

RepTables(n) ==
    {EmptyLake} \cup
    {BuildTable(UsersRef, CoursesRef, SeedStore \o extra).table :
        extra \in SeqsUpTo({DocUnknownUser, DocNextDay}, n)}
RepUsers == {"u1", "u2", "u3", "u9"}

SvcParked == SvcInit /\ store = <<>>

RepInit ==
    /\ rep_in \in [df : RepTables(MaxReports), user_id : RepUsers, start_date : ReqDays,
                   end_date : ReqDays]
    /\ rep_out = 0
    /\ rep_report = <<>>
    /\ SvcParked
    /\ LogIdle /\ ScoreIdle /\ BuildIdle /\ ParseIdle /\ AllIdle

\* GET /student/report/ answered from the table df.
RepCall ==
    /\ rep_out = 0
    /\ rep_out' \in student_report(rep_in.df, rep_in.user_id, StrDate(rep_in.start_date),
                                   StrDate(rep_in.end_date))
    /\ rep_report' \in
          IF rep_out' = 200
          THEN {r \in get_user_report(rep_in.df, rep_in.user_id, StrDate(rep_in.start_date),
                                     StrDate(rep_in.end_date)) : r.exc = "none"}
          ELSE {<<>>}
    /\ UNCHANGED <<rep_in, svcVars, logVars, scoreVars, buildVars, parseVars, allVars>>

RepNext == RepCall
ReportSpec == RepInit /\ [][RepNext]_vars

-----------------------------------------------------------------------------
(* generate_session_log applied to drawn inputs *)

MaxRows == 4           \* rows of the table generate_session_log is given

LakeRow(userId, sessionId, type, addedAt, f) ==
    [user_id |-> userId, name |-> "Ana", userId |-> userId, sessionId |-> sessionId,
     courseId |-> 1, type |-> type, addedAt |-> addedAt,
     title |-> "Algebra", teacher_id |-> "t1", f |-> f]

HrValues == {70, 80, 90, 95, 100, 105}

\* What a row of the drawn tables can be, its addedAt left open: a heart-rate
\* sample of the session, an activity sample of the session, a heart-rate sample
\* of another session.
RowKinds ==
    {[sessionId |-> 1, type |-> "USER_HEARTRATE", v |-> hr] : hr \in HrValues}
    \cup {[sessionId |-> 1, type |-> "USER_PHYSICAL_ACTIVITY", v |-> 15],
          [sessionId |-> 2, type |-> "USER_HEARTRATE", v |-> 105]}

KindRow(k, t) ==
    LakeRow("u1", k.sessionId, k.type, parse_date(IntDate(t)),
            IF k.type = "USER_HEARTRATE"
            THEN parse_body([heartrate_change |-> [value |-> k.v, count |-> 1, mean |-> k.v]],
                            k.type).f
            ELSE parse_body([detected_at |-> t, speed |-> k.v], k.type).f)

\* The orders the rows arrive in: oldest first, newest first, or in pairs of
\* equal addedAt.
ArrivalTimes(n) ==
    {[i \in 1..n |-> i], [i \in 1..n |-> n + 1 - i], [i \in 1..n |-> (i + 1) \div 2]}

LogTable(ks, ts) == [i \in DOMAIN ks |-> KindRow(ks[i], ts[i])]

LogInit ==
    /\ \E n \in 0..MaxRows :
          \E ks \in [1..n -> RowKinds], ts \in ArrivalTimes(n) :
             log_in = [df |-> LogTable(ks, ts), user_id |-> "u1", session_id |-> PyInt(1)]
    /\ session_df = <<>>
    /\ log_out = [done |-> FALSE, log |-> <<>>]
    /\ SvcParked
    /\ RepIdle /\ ScoreIdle /\ BuildIdle /\ ParseIdle /\ AllIdle

\* generate_session_log(df, user_id, session_id) runs; session_df is the sorted
\* slice it walked.
LogCall ==
    /\ ~log_out.done
    /\ \E sdf \in sort_values(SessionMask(log_in.df, log_in.user_id, log_in.session_id)) :
          /\ session_df' = sdf
          /\ LogOfSorted(sdf, log_in.session_id)
                \in generate_session_log(log_in.df, log_in.user_id, log_in.session_id)
          /\ log_out' = [done |-> TRUE, log |-> LogOfSorted(sdf, log_in.session_id)]
    /\ UNCHANGED <<log_in, svcVars, repVars, scoreVars, buildVars, parseVars, allVars>>

LogNext == LogCall
LogSpec == LogInit /\ [][LogNext]_vars

-----------------------------------------------------------------------------
(* The scorers applied to drawn inputs *)

MaxEvents == 4         \* events of the table the scorers are given

\* The events a table is drawn from, by what the table is about: video pauses of
\* several durations; playback speeds from 1.0x to 2.25x, in hundredths; tab
\* focus lost and regained, the payload's own timestamp
\* equal to addedAt or ten minutes ahead of it; one event of every other kind,
\* in two sessions.
PauseKinds ==
    {[sessionId |-> 1, type |-> "VIDEO_PAUSED", v |-> d, skew |-> 0] :
        d \in {30, 60, 75, 150, 300, 400}}
FocusKinds ==
    {[sessionId |-> 1, type |-> "TAB_FOCUS_LOST", v |-> 0, skew |-> 0],
     [sessionId |-> 1, type |-> "TAB_FOCUS_LOST", v |-> 0, skew |-> 600000],
     [sessionId |-> 1, type |-> "TAB_FOCUS_GAIN", v |-> 0, skew |-> 0],
     [sessionId |-> 1, type |-> "WEAK_RSSI", v |-> -80, skew |-> 0]}
SpeedKinds ==
    {[sessionId |-> 1, type |-> "VIDEO_SPEED_CHANGED", v |-> sp, skew |-> 0] :
        sp \in {100, 125, 150, 200, 225}}
MixedKinds ==
    {[sessionId |-> 1, type |-> "TEXT_SCROLL", v |-> 250, skew |-> 0],
     [sessionId |-> 1, type |-> "TEXT_SCROLL", v |-> 50, skew |-> 0],
     [sessionId |-> 1, type |-> "VIDEO_JUMP", v |-> 0, skew |-> 0],
     [sessionId |-> 2, type |-> "VIDEO_JUMP", v |-> 0, skew |-> 0],
     [sessionId |-> 1, type |-> "VIDEO_SPEED_CHANGED", v |-> 150, skew |-> 0],
     [sessionId |-> 1, type |-> "USER_PHYSICAL_ACTIVITY", v |-> 15, skew |-> 0],
     [sessionId |-> 2, type |-> "USER_PHYSICAL_ACTIVITY", v |-> 5, skew |-> 0],
     [sessionId |-> 1, type |-> "WEAK_RSSI", v |-> -85, skew |-> 0],
     [sessionId |-> 1, type |-> "WEARABLE_OFF", v |-> 0, skew |-> 0],
     [sessionId |-> 2, type |-> "USER_HEARTRATE", v |-> 105, skew |-> 0]}

\* The payload a client sends for an event of kind k that happened at `at`.
KindBody(k, at) ==
    CASE k.type = "VIDEO_PAUSED" -> [timestamp |-> at, duration |-> k.v]
      [] k.type = "TEXT_SCROLL" ->
            [scroll_direction |-> IF k.v < 100 THEN "up" ELSE "down",
             scroll_distance |-> k.v, current_scroll_position |-> 0, timestamp |-> at]
      [] k.type = "VIDEO_JUMP" -> [timestamp |-> at, jump_to |-> 0, direction |-> "forward"]
      [] k.type = "VIDEO_SPEED_CHANGED" -> [timestamp |-> at, speed |-> k.v]
      [] k.type = "USER_PHYSICAL_ACTIVITY" -> [detected_at |-> at, speed |-> k.v]
      [] k.type = "WEAK_RSSI" -> [rssi |-> k.v]
      [] k.type = "WEARABLE_OFF" -> [time |-> at]
      [] k.type = "UNPIN_SCREEN" -> [removed_at |-> at]
      [] k.type = "USER_HEARTRATE" ->
            [heartrate_change |-> [value |-> k.v, count |-> 1, mean |-> k.v]]
      [] OTHER -> [timestamp |-> at]

\* The lake row of the i-th event of a table: events are 30 s apart.
ScoreRow(k, i) ==
    LakeRow("u1", k.sessionId, k.type, parse_date(IntDate(i * 30000)),
            parse_body(KindBody(k, i * 30000 + k.skew), k.type).f)

ScoreTable(ks) == [i \in DOMAIN ks |-> ScoreRow(ks[i], i)]

ScoreInit ==
    /\ \E ks \in UNION {[1..n -> FocusKinds] : n \in 1..MaxEvents}
              \cup UNION {[1..n -> PauseKinds] : n \in 1..(MaxEvents - 1)}
              \cup UNION {[1..n -> SpeedKinds] : n \in 1..(MaxEvents - 1)}
              \cup UNION {[1..n -> MixedKinds] : n \in 1..(MaxEvents - 1)} :
          score_in = [df |-> ScoreTable(ks), user_id |-> "u1"]
    /\ score_out = [done |-> FALSE]
    /\ SvcParked
    /\ RepIdle /\ LogIdle /\ BuildIdle /\ ParseIdle /\ AllIdle

\* stress_report and get_concentration_score run on the rows of the user, the
\* requested dates holding all of them.
ScoreCall ==
    /\ ~score_out.done
    /\ LET user_period_df == SelectSeq(score_in.df, LAMBDA r : r.userId = score_in.user_id)
           dfx == SelectSeq(score_in.df, LAMBDA r : r.user_id = score_in.user_id)
       IN  score_out' =
              [done |-> TRUE,
               concentration |-> get_concentration_score_no_filter(user_period_df,
                                                                   user_period_df),
               stress |-> stress_score_(dfx)]
    /\ UNCHANGED <<score_in, svcVars, repVars, logVars, buildVars, parseVars, allVars>>

ScoreNext == ScoreCall
ScoreSpec == ScoreInit /\ [][ScoreNext]_vars

-----------------------------------------------------------------------------
(* load_lake applied to drawn inputs *)

MaxDocs == 2           \* documents in the collection besides the seed

\* An event with the metric columns of the seed's WEAK_RSSI event, from another
\* user and session; a VIDEO_PAUSED event whose payload lacks 'duration'.
DocDuplicateTuple == Doc("u2", 2, 1, "WEAK_RSSI", 20, [rssi |-> -80])
DocMalformed == Doc("u1", 1, 1, "VIDEO_PAUSED", 21, [timestamp |-> 21])

ExtraDocs == {DocUnknownUser, DocNextDay, DocDuplicateTuple, DocMalformed}

\* GET /user answering with one user listed twice
UsersTwice == UsersRef \o << [user_id |-> "u1", name |-> "Ana"] >>

Reverse(s) == [i \in 1..Len(s) |-> s[Len(s) + 1 - i]]
Rotate(s) == IF s = <<>> THEN s ELSE Tail(s) \o <<Head(s)>>

\* The orders in which find({}) hands out the same documents.
Reorderings(s) == {s, Reverse(s), Rotate(s)}

\* dataframeloader.load_lake up to the assignment to the global: the two
\* fetches, a connection error of either ending it, and the build.
load_lake(users_outcome, courses_outcome, users, reports) ==
    IF users_outcome = "network_error" \/ courses_outcome = "network_error"
    THEN Raised("ConnectError")
    ELSE BuildTable(ApiRequest(users_outcome, users),
                    ApiRequest(courses_outcome, CoursesRef), reports)

BuildInit ==
    /\ \E base \in {<<>>, SeedStore} : \E n \in 0..MaxDocs : \E extra \in [1..n -> ExtraDocs] :
       \E users \in {UsersRef, UsersTwice} : \E uo \in FetchOutcomes : \E co \in FetchOutcomes :
       \E reordered \in Reorderings(base \o extra) :
          build_in = [users |-> users, users_outcome |-> uo, courses_outcome |-> co,
                      reports |-> base \o extra, reordered |-> reordered]
    /\ build_out = [done |-> FALSE]
    /\ SvcParked
    /\ RepIdle /\ LogIdle /\ ScoreIdle /\ ParseIdle /\ AllIdle

\* load_lake runs on the collection, once more on the unchanged collection, and
\* on the same documents handed out in another order.
BuildCall ==
    /\ ~build_out.done
    /\ build_out' =
          [done |-> TRUE,
           first |-> load_lake(build_in.users_outcome, build_in.courses_outcome,
                               build_in.users, build_in.reports),
           second |-> load_lake(build_in.users_outcome, build_in.courses_outcome,
                                build_in.users, build_in.reports),
           reordered |-> load_lake(build_in.users_outcome, build_in.courses_outcome,
                                   build_in.users, build_in.reordered)]
    /\ UNCHANGED <<build_in, svcVars, repVars, logVars, scoreVars, parseVars, allVars>>

BuildNext == BuildCall
BuildSpec == BuildInit /\ [][BuildNext]_vars

-----------------------------------------------------------------------------
(* parse_body applied to drawn inputs *)

\* The tags parse_body is called with: the twelve it dispatches on, None, and
\* tags it does not know.
ParseTypes ==
    {d.type : d \in Range(SeedStore)} \cup {"None", "", "SCREEN_ROTATED", "user_heartrate"}

\* The payloads: those of the stored documents, whatever tag they come with.
ParseInit ==
    /\ \E d \in Range(SeedStore) \cup ExtraDocs : \E t \in ParseTypes :
          parse_in = [body |-> d.body, event_type |-> t]
    /\ parse_out = [done |-> FALSE]
    /\ SvcParked
    /\ RepIdle /\ LogIdle /\ ScoreIdle /\ BuildIdle /\ AllIdle

ParseCall ==
    /\ ~parse_out.done
    /\ LET res == parse_body(parse_in.body, parse_in.event_type)
       IN  parse_out' = [done |-> TRUE, raised |-> ~res.ok, series |-> res.f]
    /\ UNCHANGED <<parse_in, svcVars, repVars, logVars, scoreVars, buildVars, allVars>>

ParseNext == ParseCall
ParseSpec == ParseInit /\ [][ParseNext]_vars

-----------------------------------------------------------------------------
(* generate_session_log applied to sessions of every kind of event *)

MaxSessionEvents == 3  \* events of the session generate_session_log narrates

\* The events a session is drawn from: the events mapped one to one, video
\* pauses at and above the threshold, and a sample that sets each flag; or
\* activity samples below, at and above the threshold among heart-rate samples
\* and another event.
DirectKinds ==
    {[type |-> t, v |-> 0] : t \in {"TAB_FOCUS_LOST", "TAB_FOCUS_GAIN", "UNPIN_SCREEN",
                                    "WEARABLE_OFF"}}
    \cup {[type |-> "WEAK_RSSI", v |-> -80],
          [type |-> "VIDEO_PAUSED", v |-> 10], [type |-> "VIDEO_PAUSED", v |-> 11],
          [type |-> "USER_HEARTRATE", v |-> 105],
          [type |-> "USER_PHYSICAL_ACTIVITY", v |-> 15]}
FlagKinds ==
    {[type |-> "USER_PHYSICAL_ACTIVITY", v |-> sp] : sp \in {5, 10, 15}}
    \cup {[type |-> "USER_HEARTRATE", v |-> 105], [type |-> "USER_HEARTRATE", v |-> 70],
          [type |-> "WEAK_RSSI", v |-> -80]}

NarrativeRow(k, t) ==
    LakeRow("u1", 1, k.type, parse_date(IntDate(t)), parse_body(KindBody(k, t), k.type).f)

NarrativeInit ==
    /\ \E n \in 1..MaxSessionEvents : \E kinds \in {DirectKinds, FlagKinds} :
          \E ks \in [1..n -> kinds], ts \in ArrivalTimes(n) :
             log_in = [df |-> [i \in 1..n |-> NarrativeRow(ks[i], ts[i])],
                       user_id |-> "u1", session_id |-> PyInt(1)]
    /\ session_df = <<>>
    /\ log_out = [done |-> FALSE, log |-> <<>>]
    /\ SvcParked
    /\ RepIdle /\ ScoreIdle /\ BuildIdle /\ ParseIdle /\ AllIdle

NarrativeSpec == NarrativeInit /\ [][LogNext]_vars

-----------------------------------------------------------------------------
(* get_all_logs applied to drawn inputs *)

MaxLogRows == 4        \* rows of the table get_all_logs is given

\* What a row of the drawn tables can be, its time of day left open: an event of
\* one of three sessions of the user on the requested day, an event of the user
\* on the day before or on the day after, an event of another user.
AllKinds ==
    {[userId |-> "u1", sessionId |-> sid, day |-> 0] : sid \in 1..3}
    \cup {[userId |-> "u1", sessionId |-> 1, day |-> -1],
          [userId |-> "u1", sessionId |-> 1, day |-> 1],
          [userId |-> "u2", sessionId |-> 2, day |-> 0]}

AllRow(k, t) ==
    LakeRow(k.userId, k.sessionId, "WEAK_RSSI", parse_date(IntDate(k.day * DayMs + t)),
            parse_body([rssi |-> -80], "WEAK_RSSI").f)

AllInit ==
    /\ \E n \in 1..MaxLogRows :
          \E ks \in [1..n -> AllKinds], ts \in ArrivalTimes(n) :
             all_in = [df |-> [i \in 1..n |-> AllRow(ks[i], ts[i])], user_id |-> "u1",
                       start_date |-> StrDate(0), end_date |-> StrDate(0)]
    /\ all_out = [done |-> FALSE]
    /\ SvcParked
    /\ RepIdle /\ LogIdle /\ ScoreIdle /\ BuildIdle /\ ParseIdle

\* get_all_logs(df, user_id, start_date, end_date) runs; user_df is the
\* filtered table it took the sessions from.
AllCall ==
    /\ ~all_out.done
    /\ \E logs \in get_all_logs(all_in.df, all_in.user_id, all_in.start_date, all_in.end_date) :
          all_out' = [done |-> TRUE,
                      user_df |-> AllLogsMask(all_in.df, all_in.user_id,
                                              all_in.start_date, all_in.end_date),
                      logs |-> logs]
    /\ UNCHANGED <<all_in, svcVars, repVars, logVars, scoreVars, buildVars, parseVars>>

AllNext == AllCall
AllLogsSpec == AllInit /\ [][AllNext]_vars

-----------------------------------------------------------------------------
(* Properties of the service: Spec, FairSpec *)

InFlight(r) == rpc[r] # "idle"
Answered == resp.endpoint # "none"

\* C1: a report is computed on the table one build produced: the table a request
\* in flight holds was published by a single build, however many builds have
\* published since, and every answer other than 503 was computed on such a table.
C1_ReportReadsOneBuild ==
    /\ \A r \in Readers : InFlight(r) => rdf[r] \in built
    /\ (Answered /\ resp.status # 503) => resp.oneBuild

\* C1 witness: a teacher report is in flight on the table it started with while
\* a later build has published another one.
C1_Witness ==
    \E r \in Readers : InFlight(r) /\ rdf[r] \in built /\ rdf[r] # lake /\ lake \in built

\* C2 as the specification states it: after a refresh that failed, the
\* published table is the one that was published when the refresh began.
C2_FailedRefreshKeepsSnapshot ==
    lastRefresh.outcome = "failed" => lastRefresh.kept

\* C3 as the specification states it: when the build at startup has failed the
\* service starts all the same and the refresh loop exists.
C3_FailedStartupStillStarts ==
    startupErr => (life \in {"running", "cancelling", "stopped"} /\ loop # "none")

C6_OneBuildAtATime ==
    /\ ~(bpc["startup"] # "idle" /\ bpc["refresh"] # "idle")
    /\ loop # "none" => bpc["startup"] = "idle"
    /\ bpc["refresh"] # "idle" => loop = "building"

\* C6 witness: a refresh build still in progress more than one refresh interval
\* after it began.
C6_Witness ==
    /\ loop = "building" /\ bpc["refresh"] # "idle"
    /\ buildAge > RefreshInterval

\* C7: once the cancellation has been delivered to the refresh task the task
\* has ended, the handler of the loop was not taken, and no build is or gets
\* in progress.
C7_CancellationEndsTask ==
    cancelled.delivered =>
        /\ ~cancelled.handler
        /\ loop = "cancelled"
        /\ bpc["refresh"] = "idle"

\* C7 witness: shutdown has completed after the task was cancelled in its sleep.
C7_Witness ==
    cancelled.delivered /\ ~cancelled.inBuild /\ life = "stopped"

\* A refresh build ends without an exception in this step.
RefreshSucceeds ==
    loop = "building" /\ loop' = "sleep" /\ lastRefresh'.outcome = "ok"

\* C8: a refresh that failed is followed by another build, unless the service
\* is shut down first, and a refresh that succeeds publishes the table it built
\* from the collection.
C8_FailedRefreshRetries ==
    /\ (lastRefresh.outcome = "failed" /\ life = "running")
          ~> (loop = "building" \/ life # "running")
    /\ [][RefreshSucceeds => lake' = BuildTable(UsersRef, CoursesRef, store).table]_vars

\* C8 witness: the build after a failed refresh is in progress.
C8_Witness ==
    /\ lastRefresh.outcome = "failed" /\ life = "running"
    /\ loop = "building" /\ bpc["refresh"] = "get_courses"

\* C9: a build that the cancellation interrupted has not touched the published
\* table, and the table is never replaced afterwards.
C9_CancelledBuildKeepsSnapshot ==
    (cancelled.delivered /\ cancelled.inBuild) => lake = cancelled.before

\* C9 witness: the build was cancelled while the collection held a document
\* the published table does not have, and shutdown has completed.
C9_Witness ==
    /\ cancelled.delivered /\ cancelled.inBuild /\ life = "stopped"
    /\ Len(store) > Len(SeedStore) /\ lake = cancelled.before /\ lake # EmptyLake

-----------------------------------------------------------------------------
(* Properties of student_report: ReportSpec *)

\* The rows of the table that are the user's and fall in the requested days.
Matching == ConcentrationPeriod(rep_in.df, rep_in.user_id, StrDate(rep_in.start_date),
                                StrDate(rep_in.end_date))

\* C4 as the specification states it: on a table that is not empty, a request
\* whose user and dates match no row is answered 404.
C4_NoMatchingEventsIs404 ==
    (rep_out # 0 /\ rep_in.df # EmptyLake /\ Matching = <<>>) => rep_out = 404

\* The events of the requested user from the start of start_date up to the end
\* of end_date.
RequestedSlice ==
    SelectSeq(rep_in.df, LAMBDA r :
        /\ r.userId = rep_in.user_id
        /\ r.addedAt >= parse_date(StrDate(rep_in.start_date))
        /\ r.addedAt < parse_date(StrDate(rep_in.end_date)) + DayMs)

\* C22 as the specification states it: the sections of one report are computed
\* over one slice of the table, the events of the requested user from the start
\* of start_date up to the end of end_date; the per-session stress details, the
\* per-session focus details and session_count agree in number.
C22_SectionsShareOneSlice ==
    rep_out = 200 =>
        /\ rep_report.stress_details = SessionIds(RequestedSlice)
        /\ rep_report.focus_details = SessionIds(RequestedSlice)
        /\ rep_report.session_count = Len(SessionIds(RequestedSlice))
        /\ Len(rep_report.stress_details) = Len(rep_report.focus_details)
        /\ Len(rep_report.focus_details) = rep_report.session_count

\* C23 as the specification states it: for a user and date range with at least
\* one session, the session_log of the report holds, for every session in the
\* range, that session's narrative from SESSION_START to SESSION_END.
C23_NarrativeCoversSessions ==
    (rep_out = 200 /\ RequestedSlice # <<>>) =>
        \A sid \in Range(SessionIds(RequestedSlice)) :
            \E i, j \in DOMAIN rep_report.session_log :
                /\ i < j
                /\ rep_report.session_log[i].session_id = sid
                /\ rep_report.session_log[i].event_type = "SESSION_START"
                /\ rep_report.session_log[j].session_id = sid
                /\ rep_report.session_log[j].event_type = "SESSION_END"

-----------------------------------------------------------------------------
(* Properties of generate_session_log: LogSpec *)

IsHr(row) == row.type = "USER_HEARTRATE"
Mean(row) == Col(row, "heartrate_change.mean")

\* The heart-rate samples before row i of sdf left the user stressed: one of
\* them was above the stress threshold and none after it was below the calm one.
StressedBefore(sdf, i) ==
    \E j \in 1..(i - 1) :
        /\ IsHr(sdf[j]) /\ Mean(sdf[j]) > 100
        /\ \A m \in (j + 1)..(i - 1) : IsHr(sdf[m]) => ~(Mean(sdf[m]) < 80)

ExpectedStress(sdf, i) ==
    IF ~IsHr(sdf[i]) THEN "none"
    ELSE IF Mean(sdf[i]) > 100 /\ ~StressedBefore(sdf, i) THEN "STRESS_INCREASED"
    ELSE IF Mean(sdf[i]) < 80 /\ StressedBefore(sdf, i) THEN "STRESS_DECREASED"
    ELSE "none"

IsStressEntry(e) == e.event_type \in {"STRESS_INCREASED", "STRESS_DECREASED"}

\* The (event_type, timestamp) pairs of the entries of a sequence.
Stamped(entries) == [k \in DOMAIN entries |-> <<entries[k].event_type, entries[k].timestamp>>]

ExpectedStressEntries(sdf) ==
    Stamped(SelectSeq([i \in DOMAIN sdf |-> [event_type |-> ExpectedStress(sdf, i),
                                              timestamp |-> sdf[i].addedAt]],
                      IsStressEntry))

StressEntries(log) == Stamped(SelectSeq(log, IsStressEntry))
HrMeans(sdf) == LET hrs == SelectSeq(sdf, IsHr) IN [k \in DOMAIN hrs |-> Mean(hrs[k])]

\* C10: walking the session's rows in time order, a heart-rate sample adds
\* STRESS_INCREASED exactly when its mean is above 100 and the user is not
\* stressed, STRESS_DECREASED exactly when its mean is below 80 and the user is
\* stressed, and nothing otherwise; the two alternate, starting with
\* STRESS_INCREASED; the means 90, 105, 95, 70 give one of each.
C10_StressHysteresis ==
    log_out.done =>
        LET se == StressEntries(log_out.log) IN
        /\ se = ExpectedStressEntries(session_df)
        /\ \A k \in DOMAIN se :
              se[k][1] = (IF k % 2 = 1 THEN "STRESS_INCREASED" ELSE "STRESS_DECREASED")
        /\ HrMeans(session_df) = <<90, 105, 95, 70>>
              => <<se[1][1], se[2][1]>> = <<"STRESS_INCREASED", "STRESS_DECREASED">> /\ Len(se) = 2

\* C10 witness: the log of a session whose heart-rate means are 90, 105, 95, 70
\* in time order holds one STRESS_INCREASED and then one STRESS_DECREASED.
C10_Witness ==
    /\ log_out.done
    /\ HrMeans(session_df) = <<90, 105, 95, 70>>
    /\ Len(StressEntries(log_out.log)) = 2
    /\ StressEntries(log_out.log)[1][1] = "STRESS_INCREASED"
    /\ StressEntries(log_out.log)[2][1] = "STRESS_DECREASED"

\* The addedAt values of the rows of the table that belong to the session.
SessionTimes ==
    {r.addedAt : r \in Range(SessionMask(log_in.df, log_in.user_id, log_in.session_id))}

CountType(log, et) == Cardinality({k \in DOMAIN log : log[k].event_type = et})

\* C11: the log of a session without events is empty; the log of a session with
\* events has one SESSION_START, its first entry, stamped with the least addedAt
\* of the session, and one SESSION_END, its last entry, stamped with the
\* greatest addedAt.
C11_SessionBounds ==
    log_out.done =>
        LET log == log_out.log IN
        IF SessionTimes = {} THEN log = <<>>
        ELSE /\ Len(log) >= 2
             /\ CountType(log, "SESSION_START") = 1
             /\ CountType(log, "SESSION_END") = 1
             /\ log[1].event_type = "SESSION_START"
             /\ log[Len(log)].event_type = "SESSION_END"
             /\ \A t \in SessionTimes : log[1].timestamp <= t /\ t <= log[Len(log)].timestamp
             /\ log[1].timestamp \in SessionTimes
             /\ log[Len(log)].timestamp \in SessionTimes

\* C11 witness: the log of a session of several rows that arrive newest first,
\* with entries between its two markers.
C11_Witness ==
    /\ log_out.done
    /\ Len(log_in.df) >= 3
    /\ \A i \in 1..(Len(log_in.df) - 1) : log_in.df[i].addedAt > log_in.df[i + 1].addedAt
    /\ Len(log_out.log) >= 3
    /\ log_out.log[1].timestamp < log_out.log[Len(log_out.log)].timestamp

\* C12: no entry of a log is stamped earlier than an entry before it, the
\* two markers included, whatever the order of the rows in the table.
C12_LogChronological ==
    log_out.done =>
        \A i, j \in DOMAIN log_out.log :
            i < j => log_out.log[i].timestamp <= log_out.log[j].timestamp

\* C12 witness: a table whose rows arrive newest first gives a log with two
\* entries between the markers, the earlier one stamped earlier.
C12_Witness ==
    /\ log_out.done
    /\ Len(log_in.df) >= 2
    /\ \A i \in 1..(Len(log_in.df) - 1) : log_in.df[i].addedAt > log_in.df[i + 1].addedAt
    /\ Len(log_out.log) >= 4
    /\ log_out.log[2].timestamp < log_out.log[3].timestamp

-----------------------------------------------------------------------------
(* Properties of the scorers: ScoreSpec *)

InUnit(x) == FLe(Whole(0), x) /\ FLe(x, Whole(1))

ConcentrationMetrics ==
    {"TEXT_SCROLL", "VIDEO_JUMP", "VIDEO_PAUSE", "VIDEO_SPEED", "TAB_FOCUS",
     "PHYSICAL_ACTIVITY", "WEAK_SIGNAL", "WATCH_OFF"}
StressMetrics == {"HEARTRATE", "ACTIVITY", "SCROLLING", "JUMPING", "FOCUS_LOSS"}

WeightsSumToOne ==
    /\ FSum(<<METRIC_WEIGHTS.TEXT_SCROLL, METRIC_WEIGHTS.VIDEO_JUMP,
              METRIC_WEIGHTS.VIDEO_PAUSE, METRIC_WEIGHTS.VIDEO_SPEED,
              METRIC_WEIGHTS.TAB_FOCUS, METRIC_WEIGHTS.PHYSICAL_ACTIVITY,
              METRIC_WEIGHTS.WEAK_SIGNAL, METRIC_WEIGHTS.WATCH_OFF>>) = Whole(1)
    /\ FSum(<<stress_weights.heartrate, stress_weights.activity,
              stress_weights.scrolling, stress_weights.jumping,
              stress_weights.focus_loss>>) = Whole(1)

\* C13 as the specification states it: the eight concentration weights and the
\* five stress weights each sum to 1, and whatever the events of the sessions,
\* every concentration sub-score, every stress sub-score, every per-session
\* weighted sum and both averages over the sessions lie in [0,1].
C13_ScoresInUnitInterval ==
    /\ WeightsSumToOne
    /\ score_out.done =>
          /\ ~score_out.concentration.none =>
                /\ InUnit(score_out.concentration.concentration_score)
                /\ \A k \in DOMAIN score_out.concentration.sub_scores :
                      LET sub == score_out.concentration.sub_scores[k]
                      IN  /\ \A m \in ConcentrationMetrics : InUnit(sub[m])
                          /\ InUnit(SessionScore(sub))
          /\ InUnit(score_out.stress.stress)
          /\ \A k \in DOMAIN score_out.stress.sub_stress :
                LET sub == score_out.stress.sub_stress[k]
                IN  /\ \A m \in StressMetrics : InUnit(sub[m])
                    /\ InUnit(sub.stress_level)

\* The user's whole data is one TEXT_SCROLL event, downwards by 250.
SingleScrollDown250 ==
    /\ Len(score_in.df) = 1
    /\ score_in.df[1].type = "TEXT_SCROLL"
    /\ Col(score_in.df[1], "text_scroll.direction") = "down"
    /\ Col(score_in.df[1], "text_scroll.distance") = 250

\* |x - y| <= 5/1000
About(x, y) ==
    LET d == FSub(x, y)
    IN  FLe(d, Frac(5, 1000)) /\ FLe(Frac(-5, 1000), d)

PausesOnly == \A k \in DOMAIN score_in.df : score_in.df[k].type = "VIDEO_PAUSED"
Durations == [k \in DOMAIN score_in.df |-> Col(score_in.df[k], "video_paused.duration")]
PauseDurations == {pk.v : pk \in PauseKinds}

\* The factor of one pause as the specification gives it.
PauseFactor(d) ==
    IF d > 60 THEN FSub(Whole(1), Frac(Min2(d, 300), 300)) ELSE Whole(1)

\* The table with the duration of its k-th pause replaced by d.
WithDuration(df, k, d) ==
    [df EXCEPT ![k].f = {p \in df[k].f : p[1] # "video_paused.duration"}
                           \cup {<<"video_paused.duration", d>>}]

\* C15: the video-pause sub-score is 1.0 when no pause is longer than 60 s and
\* otherwise the product, over the pauses longer than 60 s, of
\* 1 - min(d, 300)/300; lengthening any one pause, the others fixed, never
\* raises it; two pauses of penalty 0.5 each give 0.25.
C15_VideoPauseScore ==
    (PausesOnly /\ score_out.done) =>
        LET score == score_out.concentration.sub_scores[1].VIDEO_PAUSE
        IN  /\ score = FProd([k \in DOMAIN Durations |-> PauseFactor(Durations[k])])
            /\ (\A k \in DOMAIN Durations : Durations[k] <= 60) => score = Whole(1)
            /\ \A k \in DOMAIN Durations : \A d \in PauseDurations :
                  d > Durations[k] =>
                      FLe(calculate_video_pause_score(WithDuration(score_in.df, k, d)),
                          score)
            /\ (Len(Durations) = 2 /\ \A k \in DOMAIN Durations :
                   PauseFactor(Durations[k]) = Frac(1, 2)) => score = Frac(1, 4)

\* Two pauses of 150 s, penalty 0.5 each, have been scored.
C15_Witness ==
    /\ PausesOnly /\ score_out.done
    /\ Durations = <<150, 150>>
    /\ score_out.concentration.sub_scores[1].VIDEO_PAUSE = Frac(1, 4)

\* The lost-focus intervals of a session as the specification gives them: from
\* each focus-lost event to the first focus-gain after it or, lacking one, to
\* the end of the session.
LostIntervals(g) ==
    LET lost_events == OfType(g, "TAB_FOCUS_LOST")
        gains == {Col(r, "focus_gain.time") : r \in Range(OfType(g, "TAB_FOCUS_GAIN"))}
    IN  {LET lost == Col(lost_events[k], "focus_lost.time")
             after == {t \in gains : t > lost}
         IN  <<lost, IF after = {} THEN AddedAtMax(g)
                     ELSE CHOOSE t \in after : \A u \in after : t <= u>> :
            k \in 1..Len(lost_events)}

\* The sum of the second components of a set of pairs.
RECURSIVE SumOfPieces(_)
SumOfPieces(S) ==
    IF S = {} THEN 0
    ELSE LET x == CHOOSE y \in S : TRUE IN x[2] + SumOfPieces(S \ {x})

\* The part of the session's wall-clock time that lies in some lost-focus
\* interval: the session is cut at every instant an interval starts or ends,
\* and the pieces inside an interval are added up.
CoveredTime(g) ==
    LET start == AddedAtMin(g)
        end == AddedAtMax(g)
        cuts == {start, end} \cup
                {t \in UNION {{i[1], i[2]} : i \in LostIntervals(g)} : start < t /\ t < end}
        Next_(p) == CHOOSE q \in cuts : q > p /\ \A r \in cuts : r > p => q <= r
        Piece(p) == IF \E i \in LostIntervals(g) : i[1] <= p /\ Next_(p) <= i[2]
                    THEN Next_(p) - p ELSE 0
    IN  SumOfPieces({<<p, Piece(p)>> : p \in cuts \ {end}})

ExpectedTabFocus(g) ==
    LET total == AddedAtMax(g) - AddedAtMin(g)
    IN  IF total = 0 THEN Whole(1) ELSE Frac(total - CoveredTime(g), total)

\* C16 as the specification states it: the tab-focus sub-score of a session is
\* the fraction of the session's wall-clock time (max addedAt minus min addedAt)
\* not covered by any lost-focus interval, each interval running from a
\* focus-lost event to the first focus-gain after it or else to the session
\* end; a session of zero duration scores 1.0, and so does a session without
\* focus-lost events.
C16_TabFocusFraction ==
    score_out.done =>
        \A k \in DOMAIN score_out.concentration.sub_scores :
            LET sub == score_out.concentration.sub_scores[k]
                g == Group(score_in.df, sub.SESSION_ID)
            IN  /\ sub.TAB_FOCUS = ExpectedTabFocus(g)
                /\ AddedAtMax(g) = AddedAtMin(g) => sub.TAB_FOCUS = Whole(1)
                /\ OfType(g, "TAB_FOCUS_LOST") = <<>> => sub.TAB_FOCUS = Whole(1)

\* The jumps of a table, and the user's historical average of jumps per
\* session: 0 when the sessions of the history contain no jump, else the jumps
\* divided by the sessions that have any.
Jumps(rows) == Len(OfType(rows, "VIDEO_JUMP"))
HistoricalAverage ==
    LET jumps == OfType(score_in.df, "VIDEO_JUMP")
    IN  IF jumps = <<>> THEN Whole(0)
        ELSE Frac(Len(jumps), Cardinality({jumps[k].sessionId : k \in DOMAIN jumps}))

ExpectedVideoJump(sjs, avg) ==
    IF avg = Whole(0) THEN (IF sjs = 0 THEN Whole(1) ELSE Whole(0))
    ELSE LET dev == FSub(Whole(sjs), avg)
         IN  FMax(Whole(0),
                  FSub(Whole(1), FMul(IF dev[1] < 0 THEN <<-dev[1], dev[2]>> ELSE dev,
                                      <<avg[2], avg[1]>>)))

\* C27: the video-jump sub-score of a session is max(0, 1 - |s - avg|/avg) for
\* its jump count s and the user's historical average avg of jumps per session;
\* when the user's sessions contain no jump the average is 0 and a session
\* without a jump scores 1.
C27_VideoJumpScore ==
    score_out.done =>
        \A k \in DOMAIN score_out.concentration.sub_scores :
            LET sub == score_out.concentration.sub_scores[k]
            IN  sub.VIDEO_JUMP =
                   ExpectedVideoJump(Jumps(Group(score_in.df, sub.SESSION_ID)),
                                     HistoricalAverage)

\* The table holds speed changes only, and their speeds in hundredths.
SpeedsOnly == \A k \in DOMAIN score_in.df : score_in.df[k].type = "VIDEO_SPEED_CHANGED"
PlaybackSpeeds == [k \in DOMAIN score_in.df |-> Col(score_in.df[k], "video_speed_changed.speed")]

\* The score of one speed as the specification gives it: the line through
\* (1.25, 1.0) and (2.0, 0).
ExpectedSpeedScore(sp) ==
    IF sp <= 125 THEN Whole(1)
    ELSE IF sp <= 200 THEN Frac(200 - sp, 75)
    ELSE Whole(0)

\* C28: a speed change scores 1.0 at or below 1.25x, falls linearly from 1.0 at
\* 1.25x to 0 at 2.0x and is 0 above 2.0x; the session's video-speed sub-score
\* is the mean of these, and 1.0 when the session has no speed change.
C28_VideoSpeedScore ==
    score_out.done =>
        /\ SpeedsOnly =>
              score_out.concentration.sub_scores[1].VIDEO_SPEED =
                  FMean([k \in DOMAIN PlaybackSpeeds |-> ExpectedSpeedScore(PlaybackSpeeds[k])])
        /\ \A k \in DOMAIN score_out.concentration.sub_scores :
              LET sub == score_out.concentration.sub_scores[k]
              IN  OfType(Group(score_in.df, sub.SESSION_ID), "VIDEO_SPEED_CHANGED") = <<>>
                     => sub.VIDEO_SPEED = Whole(1)

-----------------------------------------------------------------------------
(* Properties of the build: BuildSpec *)

\* The metric fields of a stored event.
EventTuple(doc) == {p \in parse_body(doc.body, doc.type).f : p[1] \in metric_columns}

\* The rows of a table that carry the metric fields of a stored event.
RowsOf(table, doc) == {k \in DOMAIN table : MetricTuple(table[k]) = EventTuple(doc)}

UniqueTuple(reports, i) ==
    \A j \in DOMAIN reports \ {i} : EventTuple(reports[j]) # EventTuple(reports[i])

KnownUser(users, doc) == \E u \in Range(users) : u.user_id = doc.userId

\* C17: in the lake a build produces, every stored event has a row with its
\* metric fields, also when no user record has its user id; an event whose
\* metric fields no other stored event shares has exactly one row, with its own
\* user id, session id and addedAt, the user attributes empty when the lookup
\* found no user.
C17_EveryEventSurvives ==
    (build_out.done /\ build_out.first.ok) =>
        LET reports == build_in.reports
            table == build_out.first.table
        IN  \A i \in DOMAIN reports :
               /\ RowsOf(table, reports[i]) # {}
               /\ UniqueTuple(reports, i) =>
                     /\ Cardinality(RowsOf(table, reports[i])) = 1
                     /\ \A k \in RowsOf(table, reports[i]) :
                           /\ table[k].userId = reports[i].userId
                           /\ table[k].sessionId = reports[i].sessionId
                           /\ table[k].addedAt = parse_date(IntDate(reports[i].addedAt))
                           /\ ~KnownUser(build_in.users, reports[i]) =>
                                 table[k].user_id = NaN /\ table[k].name = NaN

\* A build has produced a lake from a collection holding, once, an event of a
\* user the reference API does not know, and the lake has its row.
C17_Witness ==
    /\ build_out.done /\ build_out.first.ok
    /\ \E i \in DOMAIN build_in.reports :
          /\ build_in.reports[i] = DocUnknownUser
          /\ UniqueTuple(build_in.reports, i)
          /\ \E k \in RowsOf(build_out.first.table, DocUnknownUser) :
                /\ build_out.first.table[k].userId = "u3"
                /\ build_out.first.table[k].user_id = NaN

\* Two builds end alike and, where they produce a lake, with as many rows and
\* the same rows.
SameRows(a, b) ==
    /\ a.ok = b.ok
    /\ Len(a.table) = Len(b.table)
    /\ Range(a.table) = Range(b.table)

\* C18 as the specification states it: the build is a function of the set of
\* source rows; two builds from the same users, courses and stored events give
\* the same rows (count and content, user id, session id and addedAt included),
\* when the source is unchanged and when the same events come in another order.
C18_BuildIgnoresArrivalOrder ==
    build_out.done =>
        /\ SameRows(build_out.first, build_out.second)
        /\ SameRows(build_out.first, build_out.reordered)

\* The stored events whose payload has every sub-field its type requires.
WellFormed(doc) == parse_body(doc.body, doc.type).ok

\* The collection holds the seed, hence an event for every metric column.
Seeded ==
    /\ Len(build_in.reports) >= Len(SeedStore)
    /\ SubSeq(build_in.reports, 1, Len(SeedStore)) = SeedStore

BothFetched == build_in.users_outcome = "ok" /\ build_in.courses_outcome = "ok"

\* C19 as the specification states it: an event whose payload lacks a sub-field
\* its type requires fails its own normalization only; the build holding it
\* completes and its lake has all the well-formed events.
C19_MalformedEventFailsAlone ==
    (/\ build_out.done /\ BothFetched
     /\ Seeded
     /\ \E i \in DOMAIN build_in.reports : ~WellFormed(build_in.reports[i])) =>
        /\ build_out.first.ok
        /\ \A i \in DOMAIN build_in.reports :
              WellFormed(build_in.reports[i]) =>
                  RowsOf(build_out.first.table, build_in.reports[i]) # {}

\* C20 as the specification states it: when the fetch of the users or of the
\* courses fails, the build completes with an empty table for that source; its
\* lake has every event, the attributes of the failed source empty.
C20_FailedFetchBuildsDegraded ==
    (/\ build_out.done
     /\ (build_in.users_outcome = "ok") # (build_in.courses_outcome = "ok")
     /\ Seeded
     /\ \A i \in DOMAIN build_in.reports : WellFormed(build_in.reports[i])) =>
        /\ build_out.first.ok
        /\ \A i \in DOMAIN build_in.reports :
              RowsOf(build_out.first.table, build_in.reports[i]) # {}
        /\ \A k \in DOMAIN build_out.first.table :
              /\ build_in.users_outcome # "ok" =>
                    build_out.first.table[k].user_id = NaN
                    /\ build_out.first.table[k].name = NaN
              /\ build_in.courses_outcome # "ok" =>
                    build_out.first.table[k].title = NaN
                    /\ build_out.first.table[k].teacher_id = NaN

\* The stored events that share the metric fields of the i-th.
SameTuple(reports, i) ==
    {j \in DOMAIN reports : EventTuple(reports[j]) = EventTuple(reports[i])}

\* C29: the lake of a build never has two rows with the same metric fields;
\* stored events with equal metric fields have one row between them, that of
\* the first of them stored, whatever their users, sessions and addedAt.
C29_DedupKeysOnMetricFields ==
    (build_out.done /\ build_out.first.ok) =>
        LET reports == build_in.reports
            table == build_out.first.table
        IN  /\ \A k, m \in DOMAIN table :
                  MetricTuple(table[k]) = MetricTuple(table[m]) => k = m
            /\ \A i \in DOMAIN reports :
                  ~UniqueTuple(reports, i) =>
                      LET first == CHOOSE j \in SameTuple(reports, i) :
                                       \A l \in SameTuple(reports, i) : j <= l
                      IN  \E k \in DOMAIN table :
                             /\ RowsOf(table, reports[i]) = {k}
                             /\ table[k].userId = reports[first].userId
                             /\ table[k].sessionId = reports[first].sessionId
                             /\ table[k].addedAt = parse_date(IntDate(reports[first].addedAt))

\* A build from a collection that holds the same RSSI reading of two users, in
\* two sessions at two times: the lake has the row of the first and none for
\* the second.
C29_Witness ==
    /\ build_out.done /\ build_out.first.ok
    /\ \E i, j \in DOMAIN build_in.reports :
          /\ i < j
          /\ build_in.reports[j] = DocDuplicateTuple
          /\ EventTuple(build_in.reports[i]) = EventTuple(DocDuplicateTuple)
          /\ build_in.reports[i].userId # DocDuplicateTuple.userId
          /\ build_in.reports[i].sessionId # DocDuplicateTuple.sessionId
          /\ build_in.reports[i].addedAt # DocDuplicateTuple.addedAt
          /\ Cardinality(RowsOf(build_out.first.table, DocDuplicateTuple)) = 1
          /\ \A k \in RowsOf(build_out.first.table, DocDuplicateTuple) :
                build_out.first.table[k].userId = build_in.reports[i].userId

-----------------------------------------------------------------------------
(* Properties of parse_body: ParseSpec *)

RecognizedTypes ==
    {"USER_HEARTRATE", "USER_PHYSICAL_ACTIVITY", "WEAK_RSSI", "WEARABLE_OFF",
     "TEXT_SCROLL", "TAB_FOCUS_GAIN", "TAB_FOCUS_LOST", "UNPIN_SCREEN",
     "VIDEO_PAUSED", "VIDEO_JUMP", "VIDEO_SPEED_CHANGED", "VIDEO_PERCENTAGE"}

\* The fields of each recognized type.
TypeFields(t) ==
    CASE t = "USER_HEARTRATE" ->
            {"heartrate_change.value", "heartrate_change.count", "heartrate_change.mean"}
      [] t = "USER_PHYSICAL_ACTIVITY" -> {"physical.detected_at", "physical.speed"}
      [] t = "WEAK_RSSI" -> {"weak_rssi.value"}
      [] t = "WEARABLE_OFF" -> {"wearable_off.at"}
      [] t = "TEXT_SCROLL" -> {"text_scroll.direction", "text_scroll.distance",
                               "text_scroll.position", "text_scroll.time"}
      [] t = "TAB_FOCUS_GAIN" -> {"focus_gain.time"}
      [] t = "TAB_FOCUS_LOST" -> {"focus_lost.time"}
      [] t = "UNPIN_SCREEN" -> {"unpin_screen.at"}
      [] t = "VIDEO_PAUSED" -> {"video_paused.at", "video_paused.duration"}
      [] t = "VIDEO_JUMP" -> {"video_jump.at", "video_jump.to", "video_jump.direction"}
      [] t = "VIDEO_SPEED_CHANGED" -> {"video_speed_changed.at", "video_speed_changed.speed"}
      [] t = "VIDEO_PERCENTAGE" -> {"video_percentage.at", "video_percentage.percentage"}

\* The payloads of the stored documents that are well formed for a type: the
\* payload of the seed's document of that type, or another reading of it.
WellFormedFor(body, t) ==
    \E d \in (Range(SeedStore) \cup ExtraDocs) \ {DocMalformed} : d.type = t /\ d.body = body

SeriesFields == {p[1] : p \in parse_out.series}

\* C21: on a well-formed payload parse_body returns, for each of the twelve
\* recognized types, that type's fields and no field of another type; for an
\* unrecognized type only the other_type marker; for a null type an empty
\* result; it raises in none of these cases.
C21_ParseBodyTotal ==
    parse_out.done =>
        /\ parse_in.event_type = "None" =>
              ~parse_out.raised /\ parse_out.series = {}
        /\ parse_in.event_type \notin RecognizedTypes \cup {"None"} =>
              ~parse_out.raised
              /\ parse_out.series = {<<"other_type", parse_in.event_type>>}
        /\ (/\ parse_in.event_type \in RecognizedTypes
            /\ WellFormedFor(parse_in.body, parse_in.event_type)) =>
              ~parse_out.raised /\ SeriesFields = TypeFields(parse_in.event_type)

\* A well-formed payload of a recognized type has been parsed.
C21_Witness ==
    /\ parse_out.done /\ ~parse_out.raised
    /\ parse_in.event_type = "VIDEO_JUMP"
    /\ WellFormedFor(parse_in.body, "VIDEO_JUMP")
    /\ SeriesFields = {"video_jump.at", "video_jump.to", "video_jump.direction"}

-----------------------------------------------------------------------------
(* Properties of the narrative: NarrativeSpec *)

\* The events of the walked session of one type, and those that satisfy P.
CountRows(type) == Cardinality({i \in DOMAIN session_df : session_df[i].type = type})
LongPauses ==
    {i \in DOMAIN session_df : /\ session_df[i].type = "VIDEO_PAUSED"
                               /\ Col(session_df[i], "video_paused.duration") > 10}

\* The events mapped one to one and the kind of entry of each.
DirectMapping ==
    {<<"TAB_FOCUS_LOST", "FOCUS_LOST">>, <<"TAB_FOCUS_GAIN", "FOCUS_GAINED">>,
     <<"UNPIN_SCREEN", "SCREEN_UNPINNED">>, <<"WEARABLE_OFF", "WATCH_REMOVED">>,
     <<"WEAK_RSSI", "WEAK_SIGNAL">>}

\* C24: each focus-lost, focus-gain, screen-unpin, wearable-off and weak-signal
\* event gives exactly one entry of its kind whatever the flags; a video pause
\* gives an entry exactly when it lasted more than 10 seconds; an event gives at
\* most one entry, so a log has at most two entries more than the session has
\* events.
C24_OneEntryPerEvent ==
    log_out.done =>
        /\ \A m \in DirectMapping : CountType(log_out.log, m[2]) = CountRows(m[1])
        /\ CountType(log_out.log, "VIDEO_PAUSED") = Cardinality(LongPauses)
        /\ \A k \in DOMAIN log_out.log :
              log_out.log[k].event_type = "VIDEO_PAUSED" =>
                  \E i \in LongPauses : session_df[i].addedAt = log_out.log[k].timestamp
        /\ Len(log_out.log) <= Len(session_df) + 2

\* A session in which a heart-rate sample has raised is_stressed before a
\* weak-signal event and a pause of exactly 10 seconds: the log has the
\* STRESS_INCREASED entry, the WEAK_SIGNAL entry and no VIDEO_PAUSED entry.
C24_Witness ==
    /\ log_out.done
    /\ Len(session_df) = 3
    /\ session_df[1].type = "USER_HEARTRATE"
    /\ CountRows("WEAK_RSSI") = 1
    /\ CountRows("VIDEO_PAUSED") = 1
    /\ LongPauses = {}
    /\ CountType(log_out.log, "STRESS_INCREASED") = 1
    /\ CountType(log_out.log, "WEAK_SIGNAL") = 1
    /\ CountType(log_out.log, "VIDEO_PAUSED") = 0
    /\ Len(log_out.log) = 4

IsActivity(row) == row.type = "USER_PHYSICAL_ACTIVITY"
Speed(row) == Col(row, "physical.speed")

\* The activity samples before row i of sdf left the user active: one of them
\* was above the threshold and none after it was below it.
ActiveBefore(sdf, i) ==
    \E j \in 1..(i - 1) :
        /\ IsActivity(sdf[j]) /\ Speed(sdf[j]) > ACTIVITY_SPEED_THRESHOLD
        /\ \A m \in (j + 1)..(i - 1) :
              IsActivity(sdf[m]) => ~(Speed(sdf[m]) < ACTIVITY_SPEED_THRESHOLD)

ExpectedActivity(sdf, i) ==
    IF ~IsActivity(sdf[i]) THEN "none"
    ELSE IF Speed(sdf[i]) > ACTIVITY_SPEED_THRESHOLD /\ ~ActiveBefore(sdf, i) THEN "BECAME_ACTIVE"
    ELSE IF Speed(sdf[i]) < ACTIVITY_SPEED_THRESHOLD /\ ActiveBefore(sdf, i) THEN "BECAME_SEDENTARY"
    ELSE "none"

IsActivityEntry(e) == e.event_type \in {"BECAME_ACTIVE", "BECAME_SEDENTARY"}

ExpectedActivityEntries(sdf) ==
    Stamped(SelectSeq([i \in DOMAIN sdf |-> [event_type |-> ExpectedActivity(sdf, i),
                                              timestamp |-> sdf[i].addedAt]],
                      IsActivityEntry))

ActivityEntries(log) == Stamped(SelectSeq(log, IsActivityEntry))
Speeds(sdf) == LET acts == SelectSeq(sdf, IsActivity) IN [k \in DOMAIN acts |-> Speed(acts[k])]

\* C25: is_active is entered only by an activity sample faster than 1.0 m/s
\* and left only by one slower than 1.0 m/s, a sample of exactly 1.0 m/s
\* changing nothing; BECAME_ACTIVE and BECAME_SEDENTARY are emitted only on
\* those transitions and alternate, starting with BECAME_ACTIVE; the activity
\* entries depend on the activity samples alone and the stress entries on the
\* heart-rate samples alone.
C25_ActivityHysteresis ==
    log_out.done =>
        LET ae == ActivityEntries(log_out.log) IN
        /\ ae = ExpectedActivityEntries(session_df)
        /\ \A k \in DOMAIN ae :
              ae[k][1] = (IF k % 2 = 1 THEN "BECAME_ACTIVE" ELSE "BECAME_SEDENTARY")
        /\ StressEntries(log_out.log) = ExpectedStressEntries(session_df)
        /\ Speeds(session_df) = <<15, 10, 5>>
              => LET acts == SelectSeq(session_df, IsActivity)
                 IN  ae = <<<<"BECAME_ACTIVE", acts[1].addedAt>>,
                            <<"BECAME_SEDENTARY", acts[3].addedAt>>>>

\* The speeds 1.5, 1.0 and 0.5 m/s in time order: BECAME_ACTIVE at the first
\* sample, nothing at the second, BECAME_SEDENTARY at the third.
C25_Witness ==
    /\ log_out.done
    /\ Speeds(session_df) = <<15, 10, 5>>
    /\ ActivityEntries(log_out.log) =
          <<<<"BECAME_ACTIVE", session_df[1].addedAt>>, <<"BECAME_SEDENTARY", session_df[3].addedAt>>>>

-----------------------------------------------------------------------------
(* Properties of get_all_logs: AllLogsSpec *)

\* The position in the filtered table of the first event of a session.
FirstAppearance(sid) ==
    CHOOSE i \in DOMAIN all_out.user_df :
        /\ all_out.user_df[i].sessionId = sid
        /\ \A j \in 1..(i - 1) : all_out.user_df[j].sessionId # sid

SessionsInRange == {all_out.user_df[i].sessionId : i \in DOMAIN all_out.user_df}
EntriesOf(sid) == SelectSeq(all_out.logs, LAMBDA e : e.session_id = sid)

\* C26: the list get_all_logs returns holds, for every session of the user in
\* the date range and for no other, the complete log of that session
\* (SESSION_START to SESSION_END) as one contiguous block, the blocks being in
\* the order in which the sessions first appear in the filtered table.
C26_AllLogsConcatenated ==
    all_out.done =>
        LET logs == all_out.logs IN
        /\ {logs[k].session_id : k \in DOMAIN logs} = SessionsInRange
        /\ \A sid \in SessionsInRange :
              /\ EntriesOf(sid) \in generate_session_log(all_out.user_df, all_in.user_id, PyInt(sid))
              /\ EntriesOf(sid)[1].event_type = "SESSION_START"
              /\ EntriesOf(sid)[Len(EntriesOf(sid))].event_type = "SESSION_END"
        /\ \A a, c \in DOMAIN logs :
              a < c /\ logs[a].session_id = logs[c].session_id
                 => \A b \in a..c : logs[b].session_id = logs[a].session_id
        /\ \A a, b \in DOMAIN logs :
              a < b /\ logs[a].session_id # logs[b].session_id
                 => FirstAppearance(logs[a].session_id) < FirstAppearance(logs[b].session_id)

\* Two sessions whose events alternate in the table, the one met first having
\* the higher id and the later events: its block comes first, whole, and the
\* timestamps go down where the second block starts.
C26_Witness ==
    /\ all_out.done
    /\ Len(all_out.user_df) = 4
    /\ [i \in 1..4 |-> all_out.user_df[i].sessionId] = <<2, 1, 2, 1>>
    /\ all_out.user_df[1].addedAt > all_out.user_df[2].addedAt
    /\ [k \in DOMAIN all_out.logs |-> all_out.logs[k].session_id] = <<2, 2, 2, 2, 1, 1, 1, 1>>
    /\ all_out.logs[4].timestamp > all_out.logs[5].timestamp

====
